---- MODULE Spec2Model ----
(***************************************************************************)
(* Model of the evolutionary team search of play-pokemon-team-generator:   *)
(* the chromosome model (src/lib/genetic/chromosome.ts), the genetic       *)
(* operators (src/lib/genetic/operators.ts) and the population evaluation  *)
(* (src/lib/genetic/fitness.ts).                                           *)
(*                                                                         *)
(* Species ids are strings; they are modelled as sequences of UTF-16 code  *)
(* units so that split('_'), includes('_shadow') and the default           *)
(* Array.prototype.sort order are computed, not assumed.  Array indices    *)
(* (anchors, slots) keep the 0-based values of the code; team[i] of the    *)
(* code is team[i + 1] here.  Math.random() is a nondeterministic input:   *)
(* Math.floor(Math.random() * n) is drawn from 0..n-1, a comparison of     *)
(* Math.random() with a rate draws from RandomValues (in thousandths).     *)
(***************************************************************************)
EXTENDS Integers, Sequences, FiniteSets, TLC

\* ------------------------------------------------------------------ bounds
MaxPopulation == 2      \* largest populationSize of a run
MaxGenerations == 2     \* generations a run is followed for

\* ------------------------------------------------------- program constants
Underscore == 95        \* '_' , the separator of split('_')
Comma == 44             \* ',' , the separator of join(',')
GBLTeamSize == 3
PlayPokemonTeamSize == 6
MaxCandidates == 20     \* Math.min(20, pokemonPool.length)
MaxSampleAttempts == 100
MaxFallbackAttempts == 1000
InitialBestScore == -1
BaseDiversityScore == 10
DefaultTournamentSize == 3
EffScale == 1000000     \* effectiveness multipliers are in millionths
SuperEffective == 1600000
Resisted == 625000

\* --------------------------------------------------------------- utilities
Max(a, b) == IF a >= b THEN a ELSE b
Min(a, b) == IF a <= b THEN a ELSE b

RECURSIVE MaxOfSet(_, _)
MaxOfSet(S, best) ==
  IF S = {} THEN best
  ELSE LET x == CHOOSE y \in S : TRUE IN MaxOfSet(S \ {x}, Max(best, x))

RECURSIVE SumSeq(_)
SumSeq(s) == IF s = <<>> THEN 0 ELSE Head(s) + SumSeq(Tail(s))

Range(s) == {s[i] : i \in 1..Len(s)}

\* --------------------------------------------------------------------------
\* Strings
\* --------------------------------------------------------------------------
ShadowSuffix == <<95, 115, 104, 97, 100, 111, 119>>     \* "_shadow"

\* String.prototype.includes
Includes(s, sub) ==
  \E k \in 0..(Len(s) - Len(sub)) : SubSeq(s, k + 1, k + Len(sub)) = sub

\* the comparison of Array.prototype.sort() without comparator: by code units
RECURSIVE StrLess(_, _)
StrLess(s, t) ==
  IF t = <<>> THEN FALSE
  ELSE IF s = <<>> THEN TRUE
  ELSE IF Head(s) # Head(t) THEN Head(s) < Head(t)
  ELSE StrLess(Tail(s), Tail(t))

\* --------------------------------------------------------------------------
\* Knowledge store: a synthetic catalog and type chart standing for
\* @/data/pokemon.json and @/data/type-effectiveness.json (read-only inputs)
\* --------------------------------------------------------------------------
kA == <<97>>                      \* "a"
kAShadow == kA \o ShadowSuffix    \* "a_shadow"
kB == <<98>>
kC == <<99>>
kD == <<100>>
kE == <<101>>
kF == <<102>>
kG == <<103>>
kH == <<104>>                     \* "h": a key with no catalog record
kI == <<105>>
kJ == <<106>>
kCForm == <<99, 95, 120>>         \* "c_x": a form of c with no catalog record

\* the literal list of chromosome.ts:202-206 and fitness.ts:530-549
AllTypes ==
  << "normal", "fire", "water", "electric", "grass", "ice", "fighting",
     "poison", "ground", "flying", "psychic", "bug", "rock", "ghost",
     "dragon", "dark", "steel", "fairy" >>

TypeNames == Range(AllTypes)

\* <<attacking type, defending type, multiplier in thousandths>>
TypeChartEntries ==
  { <<"fire", "grass", 1600>>, <<"fire", "water", 625>>, <<"fire", "fire", 625>>,
    <<"water", "fire", 1600>>, <<"water", "ground", 1600>>,
    <<"water", "grass", 625>>, <<"water", "water", 625>>,
    <<"grass", "water", 1600>>, <<"grass", "ground", 1600>>,
    <<"grass", "fire", 625>>, <<"grass", "flying", 625>>,
    <<"grass", "grass", 625>>, <<"grass", "poison", 625>>,
    <<"ground", "fire", 1600>>, <<"ground", "electric", 1600>>,
    <<"ground", "poison", 1600>>, <<"ground", "flying", 390>>,
    <<"ground", "grass", 625>>,
    <<"electric", "water", 1600>>, <<"electric", "flying", 1600>>,
    <<"electric", "ground", 390>>, <<"electric", "grass", 625>>,
    <<"electric", "electric", 625>>,
    <<"flying", "grass", 1600>>, <<"flying", "electric", 625>>,
    <<"poison", "grass", 1600>>, <<"poison", "ground", 625>>,
    <<"poison", "poison", 625>>,
    <<"rock", "fire", 1600>>, <<"rock", "flying", 1600>>,
    <<"ice", "grass", 1600>>, <<"ice", "ground", 1600>>,
    <<"ice", "flying", 1600>>, <<"ice", "fire", 625>>, <<"ice", "water", 625>>,
    <<"psychic", "poison", 1600>>, <<"bug", "grass", 1600>>,
    <<"bug", "fire", 625>>, <<"bug", "flying", 625>>, <<"bug", "poison", 625>>,
    <<"steel", "fire", 625>>, <<"steel", "water", 625>>,
    <<"steel", "electric", 625>>, <<"fairy", "fire", 625>>,
    <<"fairy", "poison", 625>>, <<"dragon", "dragon", 1600>> }

\* typeChart[attack][defense]; 0 stands for a missing (undefined) entry
typeChart ==
  [a \in TypeNames |-> [d \in TypeNames |->
     IF \E e \in TypeChartEntries : e[1] = a /\ e[2] = d
     THEN (CHOOSE e \in TypeChartEntries : e[1] = a /\ e[2] = d)[3]
     ELSE 0]]

Pokemon(id, types, atk, def, hp, shadow, fastMoves, chargedMoves) ==
  [speciesId |-> id, types |-> types,
   baseStats |-> [atk |-> atk, def |-> def, hp |-> hp], shadowTag |-> shadow,
   fastMoves |-> fastMoves, chargedMoves |-> chargedMoves]

allPokemon ==
  << Pokemon(kA, <<"fire">>, 200, 100, 100, FALSE, <<"ember">>, <<"flame", "blast">>),
     Pokemon(kAShadow, <<"fire">>, 200, 100, 100, TRUE, <<"ember">>, <<"flame", "blast">>),
     Pokemon(kB, <<"water", "ground">>, 100, 150, 150, FALSE, <<"bubble">>, <<"surf", "quake">>),
     Pokemon(kC, <<"grass">>, 100, 100, 100, FALSE, <<"vine">>, <<"leaf", "frenzy">>),
     Pokemon(kD, <<"fire", "flying">>, 180, 100, 100, FALSE, <<"ember">>, <<"flame", "aerial">>),
     Pokemon(kE, <<"water">>, 100, 90, 110, FALSE, <<"bubble">>, <<"surf", "icy">>),
     Pokemon(kF, <<"grass", "poison">>, 100, 130, 140, FALSE, <<"vine">>, <<"leaf", "sludge">>),
     Pokemon(kG, <<"electric">>, 150, 100, 100, FALSE, <<"spark">>, <<"bolt", "retired">>),
     Pokemon(kI, <<"fire">>, 190, 100, 100, FALSE, <<"ember">>, <<"flame">>),
     Pokemon(kJ, <<"flying">>, 100, 100, 100, FALSE, <<"ember">>, <<"aerial">>) >>

Undefined == [undefined |-> TRUE]

\* new Map() filled by map.set(record[field], record) over records in order:
\* the last record of a key wins
MapOf(records, field) ==
  [key \in {records[i][field] : i \in 1..Len(records)} |->
     records[CHOOSE i \in 1..Len(records) :
        /\ records[i][field] = key
        /\ \A j \in 1..Len(records) : records[j][field] = key => j <= i]]

\* map.get(key)
MapGet(map, key) == IF key \in DOMAIN map THEN map[key] ELSE Undefined

pokemonBySpeciesId == MapOf(allPokemon, "speciesId")

getPokemonBySpeciesId(speciesId) == MapGet(pokemonBySpeciesId, speciesId)

\* speciesId.split('_')[0]
getBaseSpecies(speciesId) ==
  IF \E i \in 1..Len(speciesId) : speciesId[i] = Underscore
  THEN SubSeq(speciesId, 1,
         (CHOOSE i \in 1..Len(speciesId) :
            /\ speciesId[i] = Underscore
            /\ \A j \in 1..(i - 1) : speciesId[j] # Underscore) - 1)
  ELSE speciesId

\* An array slot of strings holds a string (code units, all >= 0), the value
\* undefined, or nothing at all (a hole left by a write behind the end).
UndefinedEntry == <<-1>>
HoleEntry == <<-2>>

\* array[index], 0-based: undefined behind the end and at a hole
ArrayGet(array, index) ==
  IF index + 1 \in DOMAIN array /\ array[index + 1] # HoleEntry
  THEN array[index + 1] ELSE UndefinedEntry

\* array[index] = value, 0-based: a write behind the end lengthens the array
\* and leaves holes in between
ArraySet(array, index, value) ==
  [k \in 1..Max(Len(array), index + 1) |->
     IF k = index + 1 THEN value
     ELSE IF k <= Len(array) THEN array[k] ELSE HoleEntry]

\* team.map(getBaseSpecies) calls getBaseSpecies(undefined), whose
\* undefined.split raises a TypeError; map skips holes
BaseSpeciesThrows(team) == \E i \in 1..Len(team) : team[i] = UndefinedEntry

\* map keeps the holes, and new Set(baseSpecies) reads each hole as undefined
validateTeamUniqueness(team) ==
  LET baseSpecies == [i \in 1..Len(team) |->
                        IF team[i] = HoleEntry THEN HoleEntry
                        ELSE getBaseSpecies(team[i])]
      uniqueBase == {IF b = HoleEntry THEN UndefinedEntry ELSE b :
                       b \in Range(baseSpecies)}
  IN  Cardinality(uniqueBase) = Len(baseSpecies)

\* typeChart.ts calculateEffectiveness.  The product of the chart entries of
\* the defending types, a missing entry counting as 1; the catalog has at most
\* two types per record, so the product is brought to millionths.
RECURSIVE EffProduct(_, _, _)
EffProduct(attackType, defenseTypes, multiplier) ==
  IF defenseTypes = <<>> THEN multiplier
  ELSE LET defType == Head(defenseTypes)
           entry == IF attackType \in TypeNames /\ defType \in TypeNames
                    THEN typeChart[attackType][defType] ELSE 0
       IN  EffProduct(attackType, Tail(defenseTypes),
                      IF entry # 0 THEN multiplier * entry
                      ELSE multiplier * 1000)

calculateEffectiveness(attackType, defenseTypes) ==
  LET product == EffProduct(attackType, defenseTypes, 1)
  IN  IF Len(defenseTypes) = 0 THEN EffScale
      ELSE IF Len(defenseTypes) = 1 THEN product * 1000
      ELSE product

\* --------------------------------------------------------------------------
\* Chromosome model (chromosome.ts).  A chromosome is an object
\* {team, anchors, fitness}; oid is the identity of the object (and of the
\* team and anchors arrays allocated with it).
\* --------------------------------------------------------------------------
TeamSizeOf(mode) == IF mode = "GBL" THEN GBLTeamSize ELSE PlayPokemonTeamSize

createChromosome(team, anchors, oid) ==
  [team |-> team, anchors |-> anchors, fitness |-> 0, oid |-> oid]

\* isValidChromosome comparing whole keys, not base species
isValidChromosomeByKey(chromosome, mode) ==
  /\ Len(chromosome.team) = TeamSizeOf(mode)
  /\ Cardinality(Range(chromosome.team)) = Len(chromosome.team)

isValidChromosome(chromosome, mode) ==
  LET expectedSize == TeamSizeOf(mode)
  IN  IF Len(chromosome.team) # expectedSize THEN FALSE
      ELSE IF ~validateTeamUniqueness(chromosome.team) THEN FALSE
      ELSE TRUE

\* cloneChromosome returning its argument: no new object
cloneChromosomeAlias(chromosome, oid) == chromosome

\* a new object with copies of team and anchors; oid is the new identity
cloneChromosome(chromosome, oid) ==
  [team |-> chromosome.team, anchors |-> chromosome.anchors,
   fitness |-> chromosome.fitness, oid |-> oid]

isAnchorSlot(index, chromosome) == index \in Range(chromosome.anchors)

\* getMutableSlots without the anchor test: every slot is mutable
getMutableSlotsAll(chromosome, teamSize) ==
  [i \in 1..teamSize |-> i - 1]

getMutableSlots(chromosome, teamSize) ==
  LET allSlots == [i \in 1..teamSize |-> i - 1]
  IN  SelectSeq(allSlots, LAMBDA i : ~isAnchorSlot(i, chromosome))

\* ------------------------------------------------------------ array helpers
\* Array.prototype.slice(0, end)
Slice0(s, end) ==
  LET e == IF end < 0 THEN Max(Len(s) + end, 0) ELSE Min(end, Len(s))
  IN  SubSeq(s, 1, e)

\* insert c behind every element that does not sort after it (stable)
RECURSIVE InsertByFitness(_, _)
InsertByFitness(sorted, c) ==
  IF sorted = <<>> THEN <<c>>
  ELSE IF Head(sorted).fitness >= c.fitness
       THEN <<Head(sorted)>> \o InsertByFitness(Tail(sorted), c)
       ELSE <<c>> \o sorted

\* [...population].sort((a, b) => b.fitness - a.fitness): a stable sort of a
\* copy of the array; the elements are the same objects
RECURSIVE SortDescending(_)
SortDescending(population) ==
  IF population = <<>> THEN <<>>
  ELSE InsertByFitness(SortDescending(SubSeq(population, 1, Len(population) - 1)),
                       population[Len(population)])

RECURSIVE InsertString(_, _)
InsertString(sorted, x) ==
  IF sorted = <<>> THEN <<x>>
  ELSE IF StrLess(x, Head(sorted)) THEN <<x>> \o sorted
       ELSE <<Head(sorted)>> \o InsertString(Tail(sorted), x)

\* Array.prototype.sort() of an array of strings, in place
RECURSIVE SortStrings(_)
SortStrings(a) ==
  IF a = <<>> THEN <<>>
  ELSE InsertString(SortStrings(SubSeq(a, 1, Len(a) - 1)), a[Len(a)])

\* Array.prototype.join(',')
RECURSIVE Join(_)
Join(a) ==
  IF a = <<>> THEN <<>>
  ELSE IF Len(a) = 1 THEN a[1]
  ELSE a[1] \o <<Comma>> \o Join(Tail(a))

\* ----------------------------------------------------- population utilities
sortByFitness(population) == SortDescending(population)

getBestChromosome(population) == sortByFitness(population)[1]

getWorstChromosome(population) == sortByFitness(population)[Len(population)]

\* c.team.sort() sorts the team array of every chromosome of the population
\* in place; the value returned is uniqueTeams.size / population.length,
\* kept as the pair <<numerator, denominator>>
calculateDiversity(population) ==
  LET after == [i \in 1..Len(population) |->
                  [population[i] EXCEPT !.team = SortStrings(@)]]
      uniqueTeams == {Join(after[i].team) : i \in 1..Len(after)}
  IN  [value |-> <<Cardinality(uniqueTeams), Len(population)>>,
       population |-> after]

\* Math.ceil(n * 0.3) and Math.ceil(n * 0.1) for the population sizes modelled
CeilTenths(n, tenths) == (n * tenths + 9) \div 10

\* hasConverged with range <= threshold for range < threshold
hasConvergedInclusive(population, threshold) ==
  LET sorted == sortByFitness(population)
      topCount == CeilTenths(Len(population), 3)
      topPopulation == Slice0(sorted, topCount)
  IN  IF Len(topPopulation) = 0 THEN TRUE
      ELSE topPopulation[1].fitness - topPopulation[Len(topPopulation)].fitness
             <= threshold

hasConverged(population, threshold) ==
  LET sorted == sortByFitness(population)
      topCount == CeilTenths(Len(population), 3)
      topPopulation == Slice0(sorted, topCount)
  IN  IF Len(topPopulation) = 0 THEN TRUE
      ELSE LET maxFitness == topPopulation[1].fitness
               minFitness == topPopulation[Len(topPopulation)].fitness
               range == maxFitness - minFitness
           IN  range < threshold

\* --------------------------------------------------------------------------
\* Genetic operators (operators.ts)
\* --------------------------------------------------------------------------
\* tournament.reduce((best, current) => current.fitness > best.fitness ? ...)
RECURSIVE ReduceBest(_, _)
ReduceBest(best, rest) ==
  IF rest = <<>> THEN best
  ELSE ReduceBest(IF Head(rest).fitness > best.fitness THEN Head(rest) ELSE best,
                  Tail(rest))

\* rnd: the tournamentSize values of Math.floor(Math.random() * length)
tournamentSelection(population, tournamentSize, rnd) ==
  LET tournament == [i \in 1..tournamentSize |-> population[rnd[i] + 1]]
  IN  ReduceBest(tournament[1], Tail(tournament))

\* the copy loop reading parent2's team from the far end: slot i receives
\* parent2's entry at index length - 1 - i
RECURSIVE CopyFromParent2Mirrored(_, _, _, _, _)
CopyFromParent2Mirrored(slots, crossoverPoint, team, usedBaseSpecies, parent2) ==
  IF slots = <<>> THEN team
  ELSE LET slot == Head(slots)
       IN  IF slot >= crossoverPoint
           THEN LET parent2Species == parent2.team[Len(parent2.team) - slot]
                    parent2Base == getBaseSpecies(parent2Species)
                IN  IF parent2Base \notin usedBaseSpecies
                    THEN CopyFromParent2Mirrored(Tail(slots), crossoverPoint,
                           [team EXCEPT ![slot + 1] = parent2Species],
                           usedBaseSpecies \cup {parent2Base}, parent2)
                    ELSE CopyFromParent2Mirrored(Tail(slots), crossoverPoint, team,
                                                 usedBaseSpecies, parent2)
           ELSE CopyFromParent2Mirrored(Tail(slots), crossoverPoint, team,
                                        usedBaseSpecies, parent2)

\* the loop of operators.ts:64-75 over the mutable slots, in order
RECURSIVE CopyFromParent2(_, _, _, _, _)
CopyFromParent2(slots, crossoverPoint, team, usedBaseSpecies, parent2) ==
  IF slots = <<>> THEN team
  ELSE LET slot == Head(slots)
       IN  IF slot >= crossoverPoint
           THEN LET parent2Species == parent2.team[slot + 1]
                    parent2Base == getBaseSpecies(parent2Species)
                IN  IF parent2Base \notin usedBaseSpecies
                    THEN CopyFromParent2(Tail(slots), crossoverPoint,
                           [team EXCEPT ![slot + 1] = parent2Species],
                           usedBaseSpecies \cup {parent2Base}, parent2)
                    ELSE CopyFromParent2(Tail(slots), crossoverPoint, team,
                                         usedBaseSpecies, parent2)
           ELSE CopyFromParent2(Tail(slots), crossoverPoint, team,
                                usedBaseSpecies, parent2)

\* crossover without the final uniqueness test of operators.ts:78-81
crossoverUnchecked(parent1, parent2, mode, rnd, alloc) ==
  LET teamSize == TeamSizeOf(mode)
      child == cloneChromosome(parent1, alloc)
      mutableSlots == getMutableSlots(child, teamSize)
  IN  IF Len(mutableSlots) = 0 THEN child
      ELSE
        LET crossoverPoint == mutableSlots[rnd + 1]
            anchorSpecies ==
              {getBaseSpecies(child.team[i + 1]) :
                 i \in {j \in 0..(teamSize - 1) : isAnchorSlot(j, child)}}
            beforePoint ==
              {getBaseSpecies(child.team[slot + 1]) :
                 slot \in {x \in Range(mutableSlots) : x < crossoverPoint}}
            usedBaseSpecies == anchorSpecies \cup beforePoint
            team == CopyFromParent2(mutableSlots, crossoverPoint, child.team,
                                    usedBaseSpecies, parent2)
        IN  [child EXCEPT !.team = team]

\* rnd: the value of Math.floor(Math.random() * mutableSlots.length);
\* alloc: the identity of the first object this call allocates
crossover(parent1, parent2, mode, rnd, alloc) ==
  LET teamSize == TeamSizeOf(mode)
      child == cloneChromosome(parent1, alloc)
      mutableSlots == getMutableSlots(child, teamSize)
  IN  IF Len(mutableSlots) = 0 THEN child
      ELSE
        LET crossoverPoint == mutableSlots[rnd + 1]
            anchorSpecies ==
              {getBaseSpecies(child.team[i + 1]) :
                 i \in {j \in 0..(teamSize - 1) : isAnchorSlot(j, child)}}
            beforePoint ==
              {getBaseSpecies(child.team[slot + 1]) :
                 slot \in {x \in Range(mutableSlots) : x < crossoverPoint}}
            usedBaseSpecies == anchorSpecies \cup beforePoint
            team == CopyFromParent2(mutableSlots, crossoverPoint, child.team,
                                    usedBaseSpecies, parent2)
        IN  IF ~validateTeamUniqueness(team)
            THEN cloneChromosome(parent1, alloc + 1)
            ELSE [child EXCEPT !.team = team]

\* mutate drawing the replacement from the whole pool, with no uniqueness test
mutateUnfiltered(chromosome, pokemonPool, mutationRate, mode, rnd, alloc) ==
  IF rnd.chance > mutationRate THEN chromosome
  ELSE
    LET teamSize == TeamSizeOf(mode)
        mutated == cloneChromosome(chromosome, alloc)
        mutableSlots == getMutableSlots(mutated, teamSize)
    IN  IF Len(mutableSlots) = 0 \/ Len(pokemonPool) = 0 THEN mutated
        ELSE
          LET slotToMutate == mutableSlots[rnd.slot + 1]
              newSpecies == pokemonPool[(rnd.pick % Len(pokemonPool)) + 1]
          IN  [mutated EXCEPT !.team[slotToMutate + 1] = newSpecies]

TypeError == [error |-> "TypeError"]

\* mutate without the return of operators.ts:120-122 on an empty availablePool
mutateNoEmptyCheck(chromosome, pokemonPool, mutationRate, mode, rnd, alloc) ==
  IF rnd.chance > mutationRate THEN chromosome
  ELSE
    LET teamSize == TeamSizeOf(mode)
        mutated == cloneChromosome(chromosome, alloc)
        mutableSlots == getMutableSlots(mutated, teamSize)
    IN  IF Len(mutableSlots) = 0 THEN mutated
        ELSE
          LET slotToMutate == mutableSlots[rnd.slot + 1]
              usedBaseSpecies ==
                {getBaseSpecies(mutated.team[i]) : i \in 1..Len(mutated.team)}
              availablePool ==
                SelectSeq(pokemonPool,
                          LAMBDA sp : getBaseSpecies(sp) \notin usedBaseSpecies)
              newSpecies == ArrayGet(availablePool, rnd.pick)
              team == ArraySet(mutated.team, slotToMutate, newSpecies)
          IN  IF BaseSpeciesThrows(team) THEN TypeError
              ELSE IF ~validateTeamUniqueness(team) THEN chromosome
              ELSE [mutated EXCEPT !.team = team]

\* rnd.chance: the value of Math.random() compared with the rate;
\* rnd.slot, rnd.pick: the values of the two Math.floor(Math.random() * n).
\* The value is the chromosome returned, or TypeError when the call raises.
\* mutate filtering the pool by the base species of the other members only:
\* the replaced member's own base species is free again
mutateFreeingSlot(chromosome, pokemonPool, mutationRate, mode, rnd, alloc) ==
  IF rnd.chance > mutationRate THEN chromosome
  ELSE
    LET teamSize == TeamSizeOf(mode)
        mutated == cloneChromosome(chromosome, alloc)
        mutableSlots == getMutableSlots(mutated, teamSize)
    IN  IF Len(mutableSlots) = 0 THEN mutated
        ELSE
          LET slotToMutate == mutableSlots[rnd.slot + 1]
              usedBaseSpecies ==
                {getBaseSpecies(mutated.team[i]) :
                   i \in (1..Len(mutated.team)) \ {slotToMutate + 1}}
              availablePool ==
                SelectSeq(pokemonPool,
                          LAMBDA sp : getBaseSpecies(sp) \notin usedBaseSpecies)
          IN  IF Len(availablePool) = 0 THEN mutated
              ELSE
                LET newSpecies == ArrayGet(availablePool, rnd.pick)
                    team == ArraySet(mutated.team, slotToMutate, newSpecies)
                IN  IF BaseSpeciesThrows(team) THEN TypeError
                    ELSE IF ~validateTeamUniqueness(team) THEN chromosome
                    ELSE [mutated EXCEPT !.team = team]

mutate(chromosome, pokemonPool, mutationRate, mode, rnd, alloc) ==
  IF rnd.chance > mutationRate THEN chromosome
  ELSE
    LET teamSize == TeamSizeOf(mode)
        mutated == cloneChromosome(chromosome, alloc)
        mutableSlots == getMutableSlots(mutated, teamSize)
    IN  IF Len(mutableSlots) = 0 THEN mutated
        ELSE
          LET slotToMutate == mutableSlots[rnd.slot + 1]
              usedBaseSpecies ==
                {getBaseSpecies(mutated.team[i]) : i \in 1..Len(mutated.team)}
              availablePool ==
                SelectSeq(pokemonPool,
                          LAMBDA sp : getBaseSpecies(sp) \notin usedBaseSpecies)
          IN  IF Len(availablePool) = 0 THEN mutated
              ELSE
                LET newSpecies == ArrayGet(availablePool, rnd.pick)
                    team == ArraySet(mutated.team, slotToMutate, newSpecies)
                IN  IF BaseSpeciesThrows(team) THEN TypeError
                    ELSE IF ~validateTeamUniqueness(team) THEN chromosome
                    ELSE [mutated EXCEPT !.team = team]

\* selectElites without the sort: the first eliteCount chromosomes as given
selectElitesUnsorted(population, eliteCount, alloc) ==
  LET top == Slice0(population, eliteCount)
  IN  [i \in 1..Len(top) |-> cloneChromosome(top[i], alloc + i - 1)]

\* the clones take the identities alloc, alloc + 1, ...
selectElites(population, eliteCount, alloc) ==
  LET sorted == SortDescending(population)
      top == Slice0(sorted, eliteCount)
  IN  [i \in 1..Len(top) |-> cloneChromosome(top[i], alloc + i - 1)]

\* the values Math.random() takes when it is compared with a rate
RandomValues == {0, 200, 800, 999}

\* the values of Math.floor(Math.random() * mutableSlots.length)
CrossoverDraws(parent1, mode) ==
  0..(Max(Len(getMutableSlots(parent1, TeamSizeOf(mode))), 1) - 1)

\* the values of the three Math.random() of mutate
MutateDraws(chromosome, pokemonPool, mode) ==
  LET mutableSlots == getMutableSlots(chromosome, TeamSizeOf(mode))
      usedBaseSpecies ==
        {getBaseSpecies(chromosome.team[i]) : i \in 1..Len(chromosome.team)}
      availablePool ==
        SelectSeq(pokemonPool, LAMBDA sp : getBaseSpecies(sp) \notin usedBaseSpecies)
  IN  [chance : RandomValues,
       slot : 0..(Max(Len(mutableSlots), 1) - 1),
       pick : 0..(Max(Len(availablePool), 1) - 1)]

OptionOr(options, name, default) ==
  IF name \in DOMAIN options THEN options[name] ELSE default

\* the loop condition stopping one chromosome short
generationIncompleteShort(nextGeneration, population) ==
  Len(nextGeneration) < Len(population) - 1

\* operators.ts:171, the condition of the while loop
generationIncomplete(nextGeneration, population) ==
  Len(nextGeneration) < Len(population)

\* The set of arrays createNextGeneration can return, over every outcome of
\* Math.random().  Elites take the identities alloc .. ; the child pushed at
\* length L takes its identities from alloc + |population| + 3 * L.
RECURSIVE FillGeneration(_, _, _, _, _, _, _)
FillGeneration(partial, population, pokemonPool, mode, crossoverRate, mutationRate, alloc) ==
  LET open == {g \in partial : generationIncomplete(g, population)}
      n == Len(population)
      Parents == {tournamentSelection(population, DefaultTournamentSize, rnd) :
                    rnd \in [1..DefaultTournamentSize -> 0..(n - 1)]}
      Crossed(a) ==
        UNION {
          (IF \E r \in RandomValues : r < crossoverRate
           THEN {crossover(parent1, parent2, mode, rnd, a) :
                   rnd \in CrossoverDraws(parent1, mode)}
           ELSE {})
          \cup
          (IF \E r \in RandomValues : ~(r < crossoverRate)
           THEN {cloneChromosome(parent1, a)}
           ELSE {}) : parent1 \in Parents, parent2 \in Parents}
      Children(a) ==
        UNION {{mutate(child, pokemonPool, mutationRate, mode, rnd, a + 2) :
                  rnd \in MutateDraws(child, pokemonPool, mode)} :
               child \in Crossed(a)}
  IN  IF open = {} THEN partial
      ELSE FillGeneration(
             (partial \ open) \cup
               UNION {{Append(g, child) : child \in Children(alloc + n + 3 * Len(g))} :
                      g \in open},
             population, pokemonPool, mode, crossoverRate, mutationRate, alloc)

createNextGeneration(population, pokemonPool, mode, options, alloc) ==
  LET eliteCount == OptionOr(options, "eliteCount", CeilTenths(Len(population), 1))
      crossoverRate == OptionOr(options, "crossoverRate", 800)
      mutationRate == OptionOr(options, "mutationRate", 200)
      elites == selectElites(population, eliteCount, alloc)
  IN  FillGeneration({elites}, population, pokemonPool, mode, crossoverRate,
                     mutationRate, alloc)

\* getAdaptiveMutationRate with diversity <= 0.3 for diversity < 0.3
getAdaptiveMutationRateInclusive(diversity, baseMutationRate) ==
  IF diversity[2] # 0 /\ 10 * diversity[1] <= 3 * diversity[2]
  THEN Min(baseMutationRate * 2, 500)
  ELSE IF diversity[2] # 0 /\ 10 * diversity[1] > 7 * diversity[2]
       THEN Max(baseMutationRate \div 2, 50)
       ELSE baseMutationRate

\* diversity is the pair <<uniqueTeams.size, population.length>>; 0 / 0 is
\* NaN, which compares false with everything.  Rates are in thousandths;
\* baseMutationRate * 0.5 is exact for the even rates modelled.
getAdaptiveMutationRate(diversity, baseMutationRate) ==
  IF diversity[2] # 0 /\ 10 * diversity[1] < 3 * diversity[2]
  THEN Min(baseMutationRate * 2, 500)
  ELSE IF diversity[2] # 0 /\ 10 * diversity[1] > 7 * diversity[2]
       THEN Max(baseMutationRate \div 2, 50)
       ELSE baseMutationRate

\* --------------------------------------------------------------------------
\* Move catalog (moves.ts) and ranking tables
\* --------------------------------------------------------------------------
Move(moveId, type, energy, energyGain, turns, power, buffs) ==
  [moveId |-> moveId, type |-> type, energy |-> energy, energyGain |-> energyGain,
   turns |-> turns, power |-> power, buffs |-> buffs]

\* "retired" is a move id the catalog has no record of
allMoves ==
  << Move("ember", "fire", 0, 7, 2, 5, <<>>),
     Move("bubble", "water", 0, 11, 3, 7, <<>>),
     Move("vine", "grass", 0, 8, 2, 4, <<>>),
     Move("spark", "electric", 0, 8, 2, 4, <<>>),
     Move("flame", "fire", 35, 0, 0, 60, <<>>),
     Move("blast", "fire", 75, 0, 0, 140, <<>>),
     Move("surf", "water", 40, 0, 0, 75, <<>>),
     Move("quake", "ground", 65, 0, 0, 110, <<>>),
     Move("leaf", "grass", 35, 0, 0, 60, <<>>),
     Move("frenzy", "grass", 45, 0, 0, 100, <<>>),
     Move("aerial", "flying", 45, 0, 0, 55, <<>>),
     Move("bolt", "electric", 55, 0, 0, 90, <<>>),
     Move("sludge", "poison", 50, 0, 0, 80, <<>>),
     Move("icy", "ice", 45, 0, 0, 60, <<-1>>) >>

movesByMoveId == MapOf(allMoves, "moveId")

getMoveByMoveId(moveId) == MapGet(movesByMoveId, moveId)

\* Math.ceil(chargedMove.energy / fastMove.energyGain), 0 if invalid
calculateTurnsToCharge(fastMoveId, chargedMoveId) ==
  LET fastMove == getMoveByMoveId(fastMoveId)
      chargedMove == getMoveByMoveId(chargedMoveId)
  IN  IF fastMove = Undefined \/ chargedMove = Undefined THEN 0
      ELSE IF fastMove.energyGain = 0 \/ chargedMove.energy = 0 THEN 0
      ELSE (chargedMove.energy + fastMove.energyGain - 1) \div fastMove.energyGain

\* turns * fastMove.turns * 0.5 seconds, in half seconds
calculateTimeToCharge(fastMoveId, chargedMoveId) ==
  LET turns == calculateTurnsToCharge(fastMoveId, chargedMoveId)
      fastMove == getMoveByMoveId(fastMoveId)
  IN  IF fastMove = Undefined THEN 0
      ELSE IF fastMove.turns = 0 THEN 0
      ELSE turns * fastMove.turns

\* 1 / timeToCharge, in millionths (rounded down)
calculatePressureScore(fastMoveId, chargedMoveId) ==
  LET timeToCharge == calculateTimeToCharge(fastMoveId, chargedMoveId)
  IN  IF timeToCharge = 0 THEN 0 ELSE 2000000 \div timeToCharge

hasBuffEffects(moveId) ==
  LET move == getMoveByMoveId(moveId)
  IN  move # Undefined /\ Len(move.buffs) > 0

getMoveCategory(moveId) ==
  LET move == getMoveByMoveId(moveId)
  IN  IF move = Undefined THEN "unknown"
      ELSE IF move.energy = 0 THEN "unknown"
      ELSE IF move.energy <= 40 THEN "spam"
      ELSE IF move.energy <= 50 THEN "general"
      ELSE "nuke"

\* synergyScore, in halves
evaluateMoveSynergy(chargedMove1, chargedMove2) ==
  LET move1 == getMoveByMoveId(chargedMove1)
      move2 == getMoveByMoveId(chargedMove2)
  IN  IF move1 = Undefined \/ move2 = Undefined THEN 0
      ELSE
        LET cat1 == getMoveCategory(chargedMove1)
            cat2 == getMoveCategory(chargedMove2)
            hasSpamNuke == \/ (cat1 = "spam" /\ cat2 = "nuke")
                           \/ (cat1 = "nuke" /\ cat2 = "spam")
            hasBuff == hasBuffEffects(chargedMove1) \/ hasBuffEffects(chargedMove2)
        IN  (IF hasSpamNuke THEN 4 ELSE 0) + (IF hasBuff THEN 2 ELSE 0)
            + (IF cat1 # cat2 THEN 1 ELSE 0)

\* The ranking tables: the record {average, overall} looked up for a
\* speciesId, zero where the tables have no row, and the ordered list of meta
\* threats with their two types.
NoRanking == [average |-> 0, overall |-> 0]

rankingsFor(speciesId) ==
  IF speciesId = kA THEN [average |-> 88, overall |-> 90]
  ELSE IF speciesId = kAShadow THEN [average |-> 86, overall |-> 84]
  ELSE IF speciesId = kB THEN [average |-> 78, overall |-> 76]
  ELSE IF speciesId = kC THEN [average |-> 70, overall |-> 65]
  ELSE IF speciesId = kD THEN [average |-> 60, overall |-> 55]
  ELSE IF speciesId = kF THEN [average |-> 90, overall |-> 92]
  ELSE NoRanking

getMetaThreats ==
  << [type1 |-> "water", type2 |-> "none"],
     [type1 |-> "grass", type2 |-> "poison"],
     [type1 |-> "fire", type2 |-> "flying"],
     [type1 |-> "steel", type2 |-> "none"],
     [type1 |-> "water", type2 |-> "ground"] >>

\* calculateOffensiveCoverage(moveTypes).coverageScore, in halves
calculateOffensiveCoverage(moveTypes) ==
  LET bestMultiplier(defType) ==
        MaxOfSet({calculateEffectiveness(atkType, <<defType>>) : atkType \in moveTypes}, 0)
      superEffective == {d \in TypeNames : bestMultiplier(d) >= SuperEffective}
      neutral == {d \in TypeNames : bestMultiplier(d) < SuperEffective
                                     /\ bestMultiplier(d) = EffScale}
  IN  2 * Cardinality(superEffective) + Cardinality(neutral)

\* calculateDefensiveCoverage(teamTypes).coverageScore, in halves
calculateDefensiveCoverage(teamTypes) ==
  LET Eff(atkType, i) ==
        calculateEffectiveness(atkType, SelectSeq(teamTypes[i], LAMBDA t : t # "none"))
      resistCount(atkType) ==
        Cardinality({i \in 1..Len(teamTypes) : Eff(atkType, i) <= Resisted})
      weakCount(atkType) ==
        Cardinality({i \in 1..Len(teamTypes) :
                       Eff(atkType, i) > Resisted /\ Eff(atkType, i) >= SuperEffective})
      resistedTypes == {t \in TypeNames : resistCount(t) >= 2}
      weakTypes == {t \in TypeNames : weakCount(t) >= 3}
  IN  2 * Cardinality(resistedTypes) - Cardinality(weakTypes)

\* --------------------------------------------------------------------------
\* Fitness (fitness.ts).  Scores are fixed-point; each component states its
\* unit, and calculateFitness brings them to units of 1 / FitnessScale with
\* the weights of fitness.ts:626-669.  Quotients that are not whole in these
\* units are rounded down.
\* --------------------------------------------------------------------------
FitnessScale == 120000

TeamPokemon(team) ==
  SelectSeq([i \in 1..Len(team) |-> getPokemonBySpeciesId(team[i])],
            LAMBDA p : p # Undefined)

\* (def + hp) / atk < 1.8  and  >= 2.5, without the division
IsAttackWeighted(p) == 10 * (p.baseStats.def + p.baseStats.hp) < 18 * p.baseStats.atk
IsBulky(p) == 10 * (p.baseStats.def + p.baseStats.hp) >= 25 * p.baseStats.atk

evaluateThreeLineup(lineup) ==
  IF Len(lineup) # 3 THEN 0
  ELSE
    LET lead == getPokemonBySpeciesId(lineup[1])
        switch == getPokemonBySpeciesId(lineup[2])
        closer == getPokemonBySpeciesId(lineup[3])
    IN  IF lead = Undefined \/ switch = Undefined \/ closer = Undefined THEN 0
        ELSE
          LET leadTypes == Range(lead.types)
              closerTypes == Range(closer.types)
              switchTypes == Range(switch.types)
              sharedTypes == leadTypes \cap closerTypes
              closerHasResist == \E t \in closerTypes : t \in switchTypes
              allTypes == leadTypes \cup switchTypes \cup closerTypes
              score == (IF sharedTypes # {} THEN 30 ELSE 0)
                       + (IF closerHasResist THEN 30 ELSE 0)
                       + (IF Cardinality(allTypes) >= 5 THEN 40 ELSE 0)
          IN  Min(score, 100)

\* evaluateBestLineup trying only the combinations i < j < k, in team order
evaluateBestLineupCombinations(team) ==
  IF Len(team) # 6 THEN 0
  ELSE MaxOfSet({evaluateThreeLineup(<<team[t[1] + 1], team[t[2] + 1], team[t[3] + 1]>>) :
                   t \in {u \in (0..5) \X (0..5) \X (0..5) :
                            u[1] < u[2] /\ u[2] < u[3]}}, 0)

evaluateBestLineup(team) ==
  IF Len(team) # 6 THEN 0
  ELSE MaxOfSet({evaluateThreeLineup(<<team[t[1] + 1], team[t[2] + 1], team[t[3] + 1]>>) :
                   t \in {u \in (0..5) \X (0..5) \X (0..5) :
                            u[1] # u[2] /\ u[2] # u[3] /\ u[1] # u[3]}}, 0)

calculateStrategyScore(team, mode) ==
  IF mode = "GBL" THEN evaluateThreeLineup(team) ELSE evaluateBestLineup(team)

\* number of team members' type entries equal to type
TypeCount(teamPokemon, type) ==
  SumSeq([i \in 1..Len(teamPokemon) |->
            Cardinality({k \in 1..Len(teamPokemon[i].types) :
                           teamPokemon[i].types[k] = type})])

calculateTypeDiversity(team) ==
  LET teamPokemon == TeamPokemon(team)
  IN  IF Len(teamPokemon) = 0 THEN 0
      ELSE
        LET heavy == {t \in TypeNames : TypeCount(teamPokemon, t) >= 3}
            light == {t \in TypeNames : TypeCount(teamPokemon, t) = 2}
        IN  Max(0, 100 - 30 * Cardinality(heavy) - 10 * Cardinality(light))

calculateStatBalance(team) ==
  LET teamPokemon == TeamPokemon(team)
      idx == 1..Len(teamPokemon)
  IN  IF Len(teamPokemon) = 0 THEN 0
      ELSE
        LET bulkyCount == Cardinality({i \in idx : IsBulky(teamPokemon[i])})
            attackCount == Cardinality({i \in idx : IsAttackWeighted(teamPokemon[i])})
            balancedCount == Len(teamPokemon) - bulkyCount - attackCount
            totalCount == Len(teamPokemon)
            score == 100
                     - (IF 2 * attackCount > totalCount THEN 30
                        ELSE IF 5 * attackCount > 2 * totalCount THEN 15 ELSE 0)
                     - (IF bulkyCount = 0 /\ balancedCount <= 1 THEN 30 ELSE 0)
                     + (IF bulkyCount >= 1 THEN 10 ELSE 0)
                     + (IF balancedCount >= 2 THEN 10 ELSE 0)
        IN  Max(0, score)

\* calculateShadowPreference with the penalty for an attack-weighted member
\* whose shadow form is available set to 50 in place of 0.05
calculateShadowPreferenceSevere(team) ==
  LET teamPokemon == TeamPokemon(team)
      Member(p) ==
        LET isShadow == Includes(p.speciesId, ShadowSuffix)
            shadowVariant == getPokemonBySpeciesId(p.speciesId \o ShadowSuffix)
        IN  (IF IsAttackWeighted(p)
             THEN IF isShadow THEN 15
                  ELSE IF shadowVariant # Undefined /\ shadowVariant.shadowTag
                       THEN -5000 ELSE 0
             ELSE 0)
            + (IF IsBulky(p) /\ isShadow THEN -5 ELSE 0)
  IN  IF Len(teamPokemon) = 0 THEN <<0, 1>>
      ELSE <<SumSeq([i \in 1..Len(teamPokemon) |-> Member(teamPokemon[i])]),
             Len(teamPokemon)>>

\* the sum over the members (hundredths) and the divisor teamPokemon.length
calculateShadowPreference(team) ==
  LET teamPokemon == TeamPokemon(team)
      Member(p) ==
        LET isShadow == Includes(p.speciesId, ShadowSuffix)
            shadowVariant == getPokemonBySpeciesId(p.speciesId \o ShadowSuffix)
        IN  (IF IsAttackWeighted(p)
             THEN IF isShadow THEN 15
                  ELSE IF shadowVariant # Undefined /\ shadowVariant.shadowTag
                       THEN -5 ELSE 0
             ELSE 0)
            + (IF IsBulky(p) /\ isShadow THEN -5 ELSE 0)
  IN  IF Len(teamPokemon) = 0 THEN <<0, 1>>
      ELSE <<SumSeq([i \in 1..Len(teamPokemon) |-> Member(teamPokemon[i])]),
             Len(teamPokemon)>>

\* pokemon has a charged move with a catalog record that is super effective
\* against defenseTypes
HasSuperEffectiveMove(pokemon, defenseTypes) ==
  \E k \in 1..Len(pokemon.chargedMoves) :
    LET move == getMoveByMoveId(pokemon.chargedMoves[k])
    IN  /\ move # Undefined
        /\ calculateEffectiveness(move.type, defenseTypes) >= SuperEffective

Weaknesses(pokemon) ==
  {t \in TypeNames : calculateEffectiveness(t, pokemon.types) >= SuperEffective}

\* offensiveScore * 0.6 + defensiveScore * 0.4, in units of 1 / FitnessScale
calculateTypeCoverageScore(team) ==
  LET teamPokemon == TeamPokemon(team)
      allMoveTypes ==
        UNION {{getMoveByMoveId(teamPokemon[i].chargedMoves[k]).type :
                  k \in {m \in 1..Len(teamPokemon[i].chargedMoves) :
                           getMoveByMoveId(teamPokemon[i].chargedMoves[m]) # Undefined}} :
               i \in 1..Len(teamPokemon)}
      teamTypes == [i \in 1..Len(teamPokemon) |-> teamPokemon[i].types]
  IN  IF Len(teamPokemon) = 0 THEN 0
      ELSE calculateOffensiveCoverage(allMoveTypes) * 2000
           + Max(0, calculateDefensiveCoverage(teamTypes)) * 2400

\* totalScore / validCount / 100, in units of 1 / FitnessScale
calculateRankingScore(team) ==
  LET valid == {i \in 1..Len(team) : rankingsFor(team[i]).average > 0}
      totalScore == SumSeq([i \in 1..Len(team) |->
                              IF i \in valid THEN rankingsFor(team[i]).average ELSE 0])
  IN  IF valid = {} THEN 0
      ELSE (totalScore * 1200) \div Cardinality(valid)

\* coveredThreats / 50, in units of 1 / FitnessScale; coveredThreats counts
\* every (threat, member) pair in which the member has a super effective move
calculateMetaThreatScore(team) ==
  LET metaThreats == Slice0(getMetaThreats, 50)
      teamPokemon == TeamPokemon(team)
      threatTypes(threat) ==
        SelectSeq(<<threat.type1, threat.type2>>, LAMBDA t : t # "none")
      coveredThreats ==
        SumSeq([n \in 1..Len(metaThreats) |->
                  Cardinality({i \in 1..Len(teamPokemon) :
                                 HasSuperEffectiveMove(teamPokemon[i],
                                                       threatTypes(metaThreats[n]))})])
  IN  IF Len(teamPokemon) = 0 THEN 0
      ELSE coveredThreats * 2400

\* avgSynergy * 0.5 + avgPressure * 0.5, in units of 1 / FitnessScale
calculateEnergyScore(team) ==
  LET teamPokemon == TeamPokemon(team)
      chargedMoves(p) == Slice0(p.chargedMoves, 2)
      synergy(p) ==
        IF Len(chargedMoves(p)) = 2
        THEN evaluateMoveSynergy(chargedMoves(p)[1], chargedMoves(p)[2])
        ELSE 0
      pressure(p) ==
        IF Len(p.fastMoves) > 0 /\ Len(chargedMoves(p)) > 0
        THEN Min(calculatePressureScore(p.fastMoves[1], chargedMoves(p)[1]) * 2, 1000000)
        ELSE 0
      totalSynergy == SumSeq([i \in 1..Len(teamPokemon) |-> synergy(teamPokemon[i])])
      totalPressure == SumSeq([i \in 1..Len(teamPokemon) |-> pressure(teamPokemon[i])])
  IN  IF Len(teamPokemon) = 0 THEN 0
      ELSE (60000 * totalSynergy) \div (7 * Len(teamPokemon))
           + (6 * totalPressure) \div (100 * Len(teamPokemon))

\* The number NaN: 0 / 0, and every sum, product and Math.min with it.  It is
\* kept apart from every score, which are all far above it.
NaN == -1000000000

\* Math.min(surpriseScore / team.length, 1.0), in units of 1 / FitnessScale;
\* for an empty team the quotient is 0 / 0
calculateSurpriseFactor(team) ==
  LET bonus(speciesId) ==
        LET overall == rankingsFor(speciesId).overall
        IN  (IF overall >= 60 /\ overall < 80 THEN 3 ELSE 0)
            + (IF overall > 0 /\ overall < 60 THEN 5 ELSE 0)
      surpriseScore == SumSeq([i \in 1..Len(team) |-> bonus(team[i])])
  IN  IF Len(team) = 0 THEN NaN
      ELSE Min((surpriseScore * 12000) \div Len(team), FitnessScale)

\* consistencyScore / team.length, in units of 1 / FitnessScale; for an empty
\* team the quotient is 0 / 0
calculateConsistency(team) ==
  LET bonus(speciesId) ==
        LET average == rankingsFor(speciesId).average
        IN  IF average >= 85 THEN 10 ELSE IF average >= 75 THEN 5 ELSE 0
      consistencyScore == SumSeq([i \in 1..Len(team) |-> bonus(team[i])])
  IN  IF Len(team) = 0 THEN NaN
      ELSE (consistencyScore * 12000) \div Len(team)

\* synergyScore / anchors.length, in units of 1 / FitnessScale
calculateAnchorSynergy(team, anchorIndices) ==
  LET At(i) == IF i + 1 \in DOMAIN team THEN getPokemonBySpeciesId(team[i + 1])
               ELSE Undefined
      anchors == SelectSeq([k \in 1..Len(anchorIndices) |-> At(anchorIndices[k])],
                           LAMBDA p : p # Undefined)
      nonAnchors ==
        SelectSeq([i \in 1..Len(team) |->
                     IF i - 1 \in Range(anchorIndices) THEN Undefined ELSE At(i - 1)],
                  LAMBDA p : p # Undefined)
      score(anchor) ==
        LET weaknesses == Weaknesses(anchor)
            defensiveCoverage ==
              Cardinality({w \in weaknesses :
                 \E n \in 1..Len(nonAnchors) :
                   calculateEffectiveness(w, nonAnchors[n].types) <= Resisted})
            offensiveCoverage ==
              SumSeq([n \in 1..Len(nonAnchors) |->
                        Cardinality({w \in weaknesses :
                                       HasSuperEffectiveMove(nonAnchors[n], <<w>>)})])
        IN  IF weaknesses = {} THEN 0
            ELSE (72000 * defensiveCoverage + 48000 * offensiveCoverage)
                 \div Cardinality(weaknesses)
  IN  IF Len(anchorIndices) = 0 THEN 0
      ELSE IF Len(anchors) = 0 \/ Len(nonAnchors) = 0 THEN 0
      ELSE SumSeq([k \in 1..Len(anchors) |-> score(anchors[k])]) \div Len(anchors)

\* Math.max(0, synergyScore), in units of 1 / FitnessScale
calculateTypeSynergy(team) ==
  LET teamPokemon == TeamPokemon(team)
      idx == 1..Len(teamPokemon)
      weaknessCount(t) == Cardinality({i \in idx : t \in Weaknesses(teamPokemon[i])})
      penalty(t) ==
        IF weaknessCount(t) >= 4 THEN 48000
        ELSE IF weaknessCount(t) = 3 THEN 30000
        ELSE IF weaknessCount(t) = 2 THEN 12000 ELSE 0
      penalties == SumSeq([k \in 1..Len(AllTypes) |-> penalty(AllTypes[k])])
      coveredCount(i) ==
        Cardinality({w \in Weaknesses(teamPokemon[i]) :
           \E j \in idx :
             /\ i # j
             /\ calculateEffectiveness(w, teamPokemon[j].types) <= Resisted})
      \* coveredCount / weaknesses.length, in 1 / 5040
      coverageBonus ==
        SumSeq([i \in 1..Len(teamPokemon) |->
                  IF Weaknesses(teamPokemon[i]) = {} THEN 0
                  ELSE (coveredCount(i) * 5040)
                       \div Cardinality(Weaknesses(teamPokemon[i]))])
  IN  IF Len(teamPokemon) = 0 THEN 0
      ELSE Max(0, FitnessScale - penalties
                  + (36000 * coverageBonus) \div (5040 * Len(teamPokemon)))

\* weights 0.25, 0.15, 0.1, 0.05, 0.05, 0.08, 0.2, 0.12, 0.08; GBL adds
\* surprise * 0.15, PlayPokemon adds consistency * 0.1, anchors add
\* anchorSynergy * 0.5.  Strategy, type diversity and stat balance are in
\* hundredths, shadow preference is <<sum in hundredths, divisor>>.
calculateFitness(chromosome, mode) ==
  LET team == chromosome.team
      anchors == chromosome.anchors
      typeCoverage == (calculateTypeCoverageScore(team) * 25) \div 100
      avgRanking == (calculateRankingScore(team) * 15) \div 100
      strategyViability == calculateStrategyScore(team, mode) * 120
      metaThreatCoverage == (calculateMetaThreatScore(team) * 5) \div 100
      energyBreakpoints == (calculateEnergyScore(team) * 5) \div 100
      typeDiversity == calculateTypeDiversity(team) * 96
      typeSynergy == (calculateTypeSynergy(team) * 20) \div 100
      statBalance == calculateStatBalance(team) * 144
      shadow == calculateShadowPreference(team)
      shadowPreference == (shadow[1] * 96) \div shadow[2]
      fitness == typeCoverage + avgRanking + strategyViability + metaThreatCoverage
                 + energyBreakpoints + typeDiversity + typeSynergy + statBalance
                 + shadowPreference
      Weighted(score, percent) ==
        IF score = NaN THEN NaN ELSE (score * percent) \div 100
      surpriseFactor ==
        IF mode = "GBL" THEN Weighted(calculateSurpriseFactor(team), 15) ELSE 0
      consistency ==
        IF mode = "PlayPokemon" THEN Weighted(calculateConsistency(team), 10) ELSE 0
      anchorSynergy ==
        IF Len(anchors) > 0
        THEN (calculateAnchorSynergy(team, anchors) * 50) \div 100 ELSE 0
  IN  IF surpriseFactor = NaN \/ consistency = NaN THEN NaN
      ELSE fitness + surpriseFactor + consistency + anchorSynergy

\* chromosome.fitness = calculateFitness(chromosome, mode), for each, in place
evaluatePopulation(population, mode) ==
  [i \in 1..Len(population) |->
     [population[i] EXCEPT !.fitness = calculateFitness(population[i], mode)]]

\* --------------------------------------------------------------------------
\* State
\* --------------------------------------------------------------------------
VARIABLES
  input,        \* arguments of the run: mode, pokemonPool, teamSize,
                \* anchorPokemon, populationSize
  pc,           \* "begin", "sample", "fallback": inside createRandomChromosome;
                \* "evaluate", "evolve": the generation loop; "thrown"; "call"
  building,     \* the local array `population` of initializePopulation
  frame,        \* the locals of the running createRandomChromosome
  error,        \* the error thrown, "none" if none
  population,   \* the population the driver holds
  generation,   \* generations produced so far
  diversity,    \* last value returned by calculateDiversity
  mutationRate, \* last value returned by getAdaptiveMutationRate
  converged,    \* last value returned by hasConverged
  call,         \* operator harness: the operation and its arguments
  ret           \* operator harness: the value returned

vars == <<input, pc, building, frame, error, population, generation,
          diversity, mutationRate, converged, call, ret>>

runVars == <<population, generation, diversity, mutationRate, converged>>
harnessVars == <<call, ret>>

Null == <<>>        \* null / '' : the falsy values of selectedSpecies

NoFrame == [team |-> <<>>, anchors |-> <<>>, usedBaseSpecies |-> {},
            usedTypes |-> [t \in TypeNames |-> 0], slots |-> <<>>,
            i |-> 0, attempts |-> 0, selectedSpecies |-> Null,
            bestDiversityScore |-> InitialBestScore, fallbackAttempts |-> 0]

\* --------------------------------------------------------------------------
\* createRandomChromosome (chromosome.ts:84-283), one action per draw
\* --------------------------------------------------------------------------
\* usedTypes.set(type, (usedTypes.get(type) || 0) + 1) for each type
RECURSIVE AddTypes(_, _)
AddTypes(usedTypes, types) ==
  IF types = <<>> THEN usedTypes
  ELSE AddTypes([usedTypes EXCEPT ![Head(types)] = @ + 1], Tail(types))

TrackTypes(usedTypes, speciesId) ==
  LET data == getPokemonBySpeciesId(speciesId)
  IN  IF data # Undefined THEN AddTypes(usedTypes, data.types) ELSE usedTypes

\* chromosome.ts:94-109, for i = from .. Math.min(anchorPokemon.length, teamSize) - 1
RECURSIVE PlaceAnchors(_, _, _, _)
PlaceAnchors(f, anchorPokemon, teamSize, i) ==
  IF i >= Min(Len(anchorPokemon), teamSize) THEN f
  ELSE PlaceAnchors(
         [f EXCEPT !.team[i + 1] = anchorPokemon[i + 1],
                   !.anchors = Append(@, i),
                   !.usedBaseSpecies = @ \cup {getBaseSpecies(anchorPokemon[i + 1])},
                   !.usedTypes = TrackTypes(@, anchorPokemon[i + 1])],
         anchorPokemon, teamSize, i + 1)

\* chromosome.ts:140-242: the composite score of a candidate with a record
diversityScoreOf(candidateSpecies, candidatePokemon, f, slotIndex) ==
  LET typeScore ==
        SumSeq([k \in 1..Len(candidatePokemon.types) |->
                  LET currentCount == f.usedTypes[candidatePokemon.types[k]]
                  IN  IF currentCount >= 2 THEN -5
                      ELSE IF currentCount = 1 THEN -2 ELSE 3])
      existing ==
        SelectSeq([j \in 1..slotIndex |->
                     IF f.team[j] # Null THEN getPokemonBySpeciesId(f.team[j])
                     ELSE Undefined],
                  LAMBDA p : p # Undefined)
      attackWeightedCount ==
        Cardinality({j \in 1..Len(existing) : IsAttackWeighted(existing[j])})
      bulkyCount == Cardinality({j \in 1..Len(existing) : IsBulky(existing[j])})
      balanceScore ==
        IF IsAttackWeighted(candidatePokemon)
        THEN (IF attackWeightedCount >= 2 THEN -4 ELSE 0)
             + (IF Includes(candidateSpecies, ShadowSuffix) THEN 2 ELSE 0)
        ELSE IF IsBulky(candidatePokemon)
             THEN (IF bulkyCount = 0 /\ slotIndex > 0 THEN 3 ELSE 0)
             ELSE 0
      candidateWeaknesses ==
        {t \in TypeNames :
           calculateEffectiveness(t, candidatePokemon.types) >= SuperEffective}
      sharedWeaknessCount ==
        SumSeq([j \in 1..Len(existing) |->
                  Cardinality({w \in candidateWeaknesses :
                     calculateEffectiveness(w, existing[j].types) >= SuperEffective})])
      weaknessScore ==
        IF sharedWeaknessCount >= 3 THEN -6
        ELSE IF sharedWeaknessCount >= 2 THEN -3
        ELSE IF sharedWeaknessCount = 1 THEN -1 ELSE 0
  IN  BaseDiversityScore + typeScore + balanceScore + weaknessScore

\* PlaceSelected without usedBaseSpecies.add (chromosome.ts:271)
PlaceSelectedNoTrack(f, selectedSpecies) ==
  [f EXCEPT !.team[Head(f.slots) + 1] = selectedSpecies,
            !.usedTypes = TrackTypes(@, selectedSpecies),
            !.slots = Tail(@),
            !.i = 0, !.attempts = 0, !.selectedSpecies = Null,
            !.bestDiversityScore = InitialBestScore, !.fallbackAttempts = 0]

\* chromosome.ts:269-279 and the step of the for-of loop to the next slot
PlaceSelected(f, selectedSpecies) ==
  [f EXCEPT !.team[Head(f.slots) + 1] = selectedSpecies,
            !.usedBaseSpecies = @ \cup {getBaseSpecies(selectedSpecies)},
            !.usedTypes = TrackTypes(@, selectedSpecies),
            !.slots = Tail(@),
            !.i = 0, !.attempts = 0, !.selectedSpecies = Null,
            !.bestDiversityScore = InitialBestScore, !.fallbackAttempts = 0]

\* the frame after a slot is filled: either the next slot is sampled, or the
\* chromosome {team, anchors, fitness: 0} is returned to initializePopulation,
\* which pushes it and either constructs the next one or returns
AfterSlot(f) ==
  IF f.slots # <<>>
  THEN /\ frame' = f
       /\ pc' = "sample"
       /\ UNCHANGED <<building, population>>
  ELSE LET chromosome == [team |-> f.team, anchors |-> f.anchors, fitness |-> 0,
                          oid |-> Len(building) + 1]
           pushed == Append(building, chromosome)
       IN  /\ frame' = NoFrame
           /\ IF Len(pushed) < input.populationSize
              THEN /\ building' = pushed
                   /\ pc' = "begin"
                   /\ UNCHANGED population
              ELSE /\ building' = <<>>
                   /\ population' = pushed
                   /\ pc' = "evaluate"

\* chromosome.ts:89-112: allocate the team, place the anchors, list the
\* mutable slots
BeginChromosome ==
  /\ pc = "begin"
  /\ LET teamSize == input.teamSize
         empty == [NoFrame EXCEPT !.team = [k \in 1..teamSize |-> Null]]
         placed == PlaceAnchors(empty, input.anchorPokemon, teamSize, 0)
         f == [placed EXCEPT !.slots =
                 getMutableSlots([team |-> placed.team, anchors |-> placed.anchors,
                                  fitness |-> 0], teamSize)]
     IN  AfterSlot(f)
  /\ UNCHANGED <<input, error, generation, diversity, mutationRate, converged,
                 call, ret>>

\* the sampling loop running while i <= candidateCount: one draw more
candidateCountInclusive == Min(MaxCandidates, Len(input.pokemonPool)) + 1

candidateCount == Min(MaxCandidates, Len(input.pokemonPool))

\* one iteration of the sampling loop, chromosome.ts:122-251
SampleDraw ==
  /\ pc = "sample"
  /\ frame.i < candidateCount /\ frame.attempts < MaxSampleAttempts
  /\ \E rnd \in 0..(Len(input.pokemonPool) - 1) :
       LET candidateSpecies == input.pokemonPool[rnd + 1]
           candidateBase == getBaseSpecies(candidateSpecies)
           candidatePokemon == getPokemonBySpeciesId(candidateSpecies)
           skipped == [frame EXCEPT !.attempts = @ + 1, !.i = @ + 1]
       IN  IF candidateBase \in frame.usedBaseSpecies THEN frame' = skipped
           ELSE IF candidatePokemon = Undefined THEN frame' = skipped
           ELSE LET diversityScore ==
                      diversityScoreOf(candidateSpecies, candidatePokemon, frame,
                                       Head(frame.slots))
                IN  IF diversityScore > frame.bestDiversityScore
                    THEN frame' = [skipped EXCEPT
                                     !.bestDiversityScore = diversityScore,
                                     !.selectedSpecies = candidateSpecies]
                    ELSE frame' = skipped
  /\ UNCHANGED <<input, pc, building, error, runVars, harnessVars>>

\* the sampling loop ends (chromosome.ts:122, 254): place the selected
\* candidate, or enter the fallback
EndSampling ==
  /\ pc = "sample"
  /\ ~(frame.i < candidateCount /\ frame.attempts < MaxSampleAttempts)
  /\ IF frame.selectedSpecies # Null
     THEN AfterSlot(PlaceSelected(frame, frame.selectedSpecies))
     ELSE /\ frame' = [frame EXCEPT !.fallbackAttempts = 0]
          /\ pc' = "fallback"
          /\ UNCHANGED <<building, population>>
  /\ UNCHANGED <<input, error, generation, diversity, mutationRate, converged,
                 call, ret>>

\* one iteration of the do-while loop, chromosome.ts:256-266.  The pool may
\* be empty: pokemonPool[0] is then undefined and getBaseSpecies(undefined)
\* raises a TypeError in the loop condition.
FallbackDraw ==
  /\ pc = "fallback"
  /\ LET fallbackAttempts == frame.fallbackAttempts + 1
     IN  IF fallbackAttempts > MaxFallbackAttempts
         THEN /\ error' = "ConstructionError"
              /\ pc' = "thrown"
              /\ frame' = [frame EXCEPT !.fallbackAttempts = fallbackAttempts]
              /\ building' = <<>>
              /\ UNCHANGED population
         ELSE IF Len(input.pokemonPool) = 0
         THEN /\ error' = "TypeError"
              /\ pc' = "thrown"
              /\ frame' = [frame EXCEPT !.fallbackAttempts = fallbackAttempts]
              /\ building' = <<>>
              /\ UNCHANGED population
         ELSE \E rnd \in 0..(Len(input.pokemonPool) - 1) :
                LET selectedSpecies == input.pokemonPool[rnd + 1]
                IN  IF getBaseSpecies(selectedSpecies) \in frame.usedBaseSpecies
                    THEN /\ frame' = [frame EXCEPT !.fallbackAttempts = fallbackAttempts]
                         /\ UNCHANGED <<pc, building, population, error>>
                    ELSE /\ AfterSlot(PlaceSelected(frame, selectedSpecies))
                         /\ UNCHANGED error
  /\ UNCHANGED <<input, generation, diversity, mutationRate, converged,
                 call, ret>>

\* --------------------------------------------------------------------------
\* The generation loop: the operations a driver applies to the population
\* that initializePopulation returned
\* --------------------------------------------------------------------------
\* the new array replaces the old one; its objects are named by position
Rebase(next) == [i \in 1..Len(next) |-> [next[i] EXCEPT !.oid = i]]

NoDiversity == <<0, 0>>     \* calculateDiversity has not been called

ConvergenceThreshold == FitnessScale \div 100     \* 0.01
DefaultMutationRate == 200

\* The driver's generation loop keeps evaluation, evolution and replacement
\* strictly sequential: a population is evaluated (pc = "evaluate") before
\* its statistics are taken and the next generation is derived from it
\* (pc = "evolve").  diversity, mutationRate and converged are the values
\* computed for the current generation.
EvaluatePopulation ==
  /\ pc = "evaluate"
  /\ population' = evaluatePopulation(population, input.mode)
  /\ pc' = "evolve"
  /\ UNCHANGED <<input, building, frame, error, generation, diversity,
                 mutationRate, converged, harnessVars>>

CalculateDiversity ==
  /\ pc = "evolve"
  /\ LET r == calculateDiversity(population)
     IN  /\ population' = r.population
         /\ diversity' = r.value
  /\ UNCHANGED <<input, pc, building, frame, error, generation, mutationRate,
                 converged, harnessVars>>

GetAdaptiveMutationRate ==
  /\ pc = "evolve"
  /\ diversity # NoDiversity
  /\ mutationRate' = getAdaptiveMutationRate(diversity, DefaultMutationRate)
  /\ UNCHANGED <<input, pc, building, frame, error, population, generation,
                 diversity, converged, harnessVars>>

HasConverged ==
  /\ pc = "evolve"
  /\ converged' = hasConverged(population, ConvergenceThreshold)
  /\ UNCHANGED <<input, pc, building, frame, error, population, generation,
                 diversity, mutationRate, harnessVars>>

\* the options a driver may pass: none, an explicit elite count, the adapted
\* mutation rate, the extreme rates
RunOptions ==
  {<<>>} \cup
  {[eliteCount |-> e] : e \in 0..Len(population)} \cup
  {[mutationRate |-> mutationRate]} \cup
  {[eliteCount |-> e, crossoverRate |-> c, mutationRate |-> m] :
     e \in {0, Len(population)}, c \in {0, 1000}, m \in {0, 1000}}

CreateNextGeneration ==
  /\ pc = "evolve"
  /\ generation < MaxGenerations
  /\ \E options \in RunOptions :
       \E next \in createNextGeneration(population, input.pokemonPool,
                                        input.mode, options, Len(population) + 1) :
         population' = Rebase(next)
  /\ generation' = generation + 1
  /\ pc' = "evaluate"
  /\ diversity' = NoDiversity
  /\ mutationRate' = DefaultMutationRate
  /\ converged' = FALSE
  /\ UNCHANGED <<input, building, frame, error, harnessVars>>

\* --------------------------------------------------------------------------
\* Single calls of the operators on arbitrary valid chromosomes
\* --------------------------------------------------------------------------
NoCall == [op |-> "none"]
NoRet == [done |-> FALSE]
NoInput == [mode |-> "none"]

RECURSIVE SetToAscSeq(_)
SetToAscSeq(S) ==
  IF S = {} THEN <<>>
  ELSE LET m == CHOOSE x \in S : \A y \in S : x <= y
       IN  <<m>> \o SetToAscSeq(S \ {m})

\* every anchor set of a team of three
GBLAnchors == {SetToAscSeq(S) : S \in SUBSET (0..(GBLTeamSize - 1))}
GBLKeys == {kA, kAShadow, kB, kC, kD}
GBLTeams == {t \in [1..GBLTeamSize -> GBLKeys] : validateTeamUniqueness(t)}

PlayPokemonTeams ==
  {<<kA, kB, kC, kD, kE, kF>>, <<kF, kE, kD, kC, kB, kA>>,
   <<kAShadow, kB, kC, kD, kE, kG>>, <<kG, kA, kB, kC, kD, kE>>,
   <<kB, kC, kD, kE, kF, kG>>}
PlayPokemonAnchors ==
  {<<>>, <<0>>, <<0, 1>>, <<0, 1, 2, 3>>, <<0, 1, 2, 3, 4>>,
   <<0, 1, 2, 3, 4, 5>>, <<1, 3>>, <<5>>}

ParentFitness == 5 * FitnessScale

Chromosomes(teams, anchorSets, oid) ==
  {[createChromosome(t, a, oid) EXCEPT !.fitness = ParentFitness] :
     t \in teams, a \in anchorSets}

CrossoverCalls(mode, teams, anchorSets) ==
  UNION {{[op |-> "crossover", mode |-> mode, parent1 |-> parent1,
           parent2 |-> [createChromosome(t, parent1.anchors, 2) EXCEPT !.fitness = 0]] :
            t \in teams}
         \cup {[op |-> "crossover", mode |-> mode, parent1 |-> parent1,
                parent2 |-> parent1]} :
         parent1 \in Chromosomes(teams, anchorSets, 1)}

MutatePools ==
  {<<>>, <<kA>>, <<kA, kAShadow, kB, kC, kD, kE>>, <<kE, kF, kH, kCForm>>}
MutateRates == {0, 200, 1000}

\* teams that are not valid for GBL: too short, too long, duplicate base
\* species
InvalidTeams ==
  {<<>>, <<kA>>, <<kA, kB>>, <<kA, kB, kC, kD>>, <<kA, kAShadow, kB>>,
   <<kA, kA, kC>>, <<kC, kCForm, kC>>}

MutateCalls(mode, teams, anchorSets) ==
  [op : {"mutate"}, mode : {mode}, chromosome : Chromosomes(teams, anchorSets, 1),
   pokemonPool : MutatePools, mutationRate : MutateRates]

\* populations of chromosomes anchored on their first two slots
CallFitness == {0, FitnessScale, 2 * FitnessScale}
CallTeams == {<<kA, kB, kC>>, <<kA, kB, kD>>}
CallPool == <<kA, kB, kC, kD>>

CallPopulations ==
  UNION {{[i \in 1..n |-> [createChromosome(t[i], <<0, 1>>, i) EXCEPT
                             !.fitness = f[i]]] :
            t \in [1..n -> CallTeams], f \in [1..n -> CallFitness]} :
         n \in 1..MaxPopulation}

SelectElitesCalls ==
  UNION {{[op |-> "selectElites", population |-> pop, eliteCount |-> e] :
            e \in 0..(Len(pop) + 1)} :
         pop \in CallPopulations}

CallOptions(pop) ==
  {<<>>} \cup
  {[eliteCount |-> e] : e \in 0..Len(pop)} \cup
  {[eliteCount |-> e, crossoverRate |-> c, mutationRate |-> m] :
     e \in {0, Len(pop)}, c \in {0, 1000}, m \in {0, 1000}}

CreateNextGenerationCalls ==
  UNION {{[op |-> "createNextGeneration", population |-> pop,
           pokemonPool |-> CallPool, mode |-> "GBL", options |-> options] :
            options \in CallOptions(pop)} :
         pop \in CallPopulations}

\* populations of up to MaxConvergencePopulation chromosomes whose fitness
\* values lie a threshold, or one unit more or less, apart
MaxConvergencePopulation == 5
ConvergenceFitness ==
  {0, ConvergenceThreshold - 1, ConvergenceThreshold, ConvergenceThreshold + 1}

HasConvergedCalls ==
  UNION {{[op |-> "hasConverged",
           population |-> [i \in 1..n |->
              [createChromosome(<<kA, kB, kC>>, <<>>, i) EXCEPT !.fitness = f[i]]],
           threshold |-> threshold] :
            f \in [1..n -> ConvergenceFitness],
            threshold \in {0, ConvergenceThreshold}} :
         n \in 0..MaxConvergencePopulation}

\* chromosomes of every team of up to MaxValidatedTeam keys (forms and keys
\* with no catalog record among them) and some longer teams, with and
\* without anchors and fitness
MaxValidatedTeam == 4
ValidatedKeys == {kA, kAShadow, kC, kCForm, kH}
ValidatedTeams ==
  UNION {[1..n -> ValidatedKeys] : n \in 0..MaxValidatedTeam}
    \cup PlayPokemonTeams
    \cup {<<kA, kB, kC, kD, kE>>, <<kA, kB, kC, kD, kE, kAShadow>>,
          <<kH, kB, kCForm, kD, kE, kF>>, <<kA, kB, kC, kD, kE, kF, kG>>}

IsValidChromosomeCalls ==
  {[op |-> "isValidChromosome", mode |-> mode,
    chromosome |-> [createChromosome(t, a, 1) EXCEPT !.fitness = f]] :
     mode \in {"GBL", "PlayPokemon"}, t \in ValidatedTeams,
     a \in {<<>>, <<0, 1>>}, f \in {0, ParentFitness}}

\* chromosomes of every team of up to MaxScoredTeam keys, the empty team
\* included, and the six-member teams, with and without anchors
MaxScoredTeam == 3
ScoredKeys == {kA, kAShadow, kB, kC, kD, kG, kH}
ScoredTeams ==
  UNION {[1..n -> ScoredKeys] : n \in 0..MaxScoredTeam}
    \cup PlayPokemonTeams
    \cup {<<kH, kB, kCForm, kD, kE, kF>>, <<kA, kAShadow, kD, kG, kH, kH>>}

CalculateFitnessCalls ==
  {[op |-> "calculateFitness", mode |-> mode,
    chromosome |-> createChromosome(t, a, 1)] :
     mode \in {"GBL", "PlayPokemon"}, t \in ScoredTeams,
     a \in {<<>>, <<0>>, <<0, 1>>}}

CalculateMetaThreatScoreCalls ==
  {[op |-> "calculateMetaThreatScore", team |-> t] : t \in ScoredTeams}

CalculateAnchorSynergyCalls ==
  {[op |-> "calculateAnchorSynergy", team |-> t, anchorIndices |-> a] :
     t \in ScoredTeams, a \in {<<>>, <<0>>, <<0, 1>>, <<2>>, <<2, 5>>}}

\* lineups of three over the catalog keys and a key without record, and teams
\* of six, some with a member without record
StrategyKeys == {kA, kB, kC, kD, kE, kF, kH, kI, kJ}
StrategyTeams ==
  [1..3 -> StrategyKeys]
    \cup PlayPokemonTeams
    \cup {<<kA, kE, kB, kC, kG, kI>>, <<kB, kD, kF, kA, kC, kE>>,
          <<kD, kA, kJ, kC, kG, kE>>, <<kA, kJ, kD, kC, kG, kE>>,
          <<kA, kC, kG, kE, kH, kCForm>>, <<kH, kB, kC, kD, kE, kF>>,
          <<kG, kC, kE, kH, kCForm, kA>>}

CalculateStrategyScoreCalls ==
  {[op |-> "calculateStrategyScore", team |-> t, mode |-> mode] :
     t \in StrategyTeams, mode \in {"GBL", "PlayPokemon"}}

\* diversity = unique / length for every population of up to
\* MaxDiversityPopulation chromosomes; the base rate is passed or left out
MaxDiversityPopulation == 10
BaseRates == {0, 40, 100, 200, 250, 300, 600, 1000}

GetAdaptiveMutationRateCalls ==
  UNION {{[op |-> "getAdaptiveMutationRate", diversity |-> <<k, n>>]}
         \cup {[op |-> "getAdaptiveMutationRate", diversity |-> <<k, n>>,
                 baseMutationRate |-> b] : b \in BaseRates} :
         n \in 1..MaxDiversityPopulation, k \in 0..MaxDiversityPopulation}

Ops == {"crossover", "mutate", "selectElites", "createNextGeneration",
        "hasConverged", "getAdaptiveMutationRate", "isValidChromosome",
        "calculateFitness", "calculateMetaThreatScore", "calculateAnchorSynergy",
        "calculateStrategyScore"}

CallsOf(op) ==
  IF op = "crossover"
  THEN CrossoverCalls("GBL", GBLTeams, GBLAnchors)
         \cup CrossoverCalls("PlayPokemon", PlayPokemonTeams, PlayPokemonAnchors)
  ELSE IF op = "mutate"
  THEN MutateCalls("GBL", GBLTeams \cup InvalidTeams, GBLAnchors)
         \cup MutateCalls("PlayPokemon", PlayPokemonTeams, PlayPokemonAnchors)
  ELSE IF op = "selectElites" THEN SelectElitesCalls
  ELSE IF op = "hasConverged" THEN HasConvergedCalls
  ELSE IF op = "calculateFitness" THEN CalculateFitnessCalls
  ELSE IF op = "calculateStrategyScore" THEN CalculateStrategyScoreCalls
  ELSE IF op = "calculateAnchorSynergy" THEN CalculateAnchorSynergyCalls
  ELSE IF op = "calculateMetaThreatScore" THEN CalculateMetaThreatScoreCalls
  ELSE IF op = "isValidChromosome" THEN IsValidChromosomeCalls
  ELSE IF op = "getAdaptiveMutationRate" THEN GetAdaptiveMutationRateCalls
  ELSE CreateNextGenerationCalls

Crossover ==
  /\ pc = "call" /\ call.op = "crossover" /\ ~ret.done
  /\ \E rnd \in CrossoverDraws(call.parent1, call.mode) :
       ret' = [done |-> TRUE,
               value |-> crossover(call.parent1, call.parent2, call.mode, rnd,
                                   Max(call.parent1.oid, call.parent2.oid) + 1)]
  /\ UNCHANGED <<input, pc, building, frame, error, runVars, call>>

Mutate ==
  /\ pc = "call" /\ call.op = "mutate" /\ ~ret.done
  /\ \E rnd \in MutateDraws(call.chromosome, call.pokemonPool, call.mode) :
       ret' = [done |-> TRUE,
               value |-> mutate(call.chromosome, call.pokemonPool,
                                call.mutationRate, call.mode, rnd,
                                call.chromosome.oid + 1)]
  /\ UNCHANGED <<input, pc, building, frame, error, runVars, call>>

SelectElites ==
  /\ pc = "call" /\ call.op = "selectElites" /\ ~ret.done
  /\ ret' = [done |-> TRUE,
             value |-> selectElites(call.population, call.eliteCount,
                                    Len(call.population) + 1)]
  /\ UNCHANGED <<input, pc, building, frame, error, runVars, call>>

NextGeneration ==
  /\ pc = "call" /\ call.op = "createNextGeneration" /\ ~ret.done
  /\ \E next \in createNextGeneration(call.population, call.pokemonPool,
                                      call.mode, call.options,
                                      Len(call.population) + 1) :
       ret' = [done |-> TRUE, value |-> next]
  /\ UNCHANGED <<input, pc, building, frame, error, runVars, call>>

HasConvergedCall ==
  /\ pc = "call" /\ call.op = "hasConverged" /\ ~ret.done
  /\ ret' = [done |-> TRUE,
             value |-> hasConverged(call.population, call.threshold)]
  /\ UNCHANGED <<input, pc, building, frame, error, runVars, call>>

GetAdaptiveMutationRateCall ==
  /\ pc = "call" /\ call.op = "getAdaptiveMutationRate" /\ ~ret.done
  /\ ret' = [done |-> TRUE,
             value |-> getAdaptiveMutationRate(call.diversity,
                         OptionOr(call, "baseMutationRate", DefaultMutationRate))]
  /\ UNCHANGED <<input, pc, building, frame, error, runVars, call>>

IsValidChromosomeCall ==
  /\ pc = "call" /\ call.op = "isValidChromosome" /\ ~ret.done
  /\ ret' = [done |-> TRUE, value |-> isValidChromosome(call.chromosome, call.mode)]
  /\ UNCHANGED <<input, pc, building, frame, error, runVars, call>>

CalculateFitnessCall ==
  /\ pc = "call" /\ call.op = "calculateFitness" /\ ~ret.done
  /\ ret' = [done |-> TRUE, value |-> calculateFitness(call.chromosome, call.mode)]
  /\ UNCHANGED <<input, pc, building, frame, error, runVars, call>>

CalculateMetaThreatScoreCall ==
  /\ pc = "call" /\ call.op = "calculateMetaThreatScore" /\ ~ret.done
  /\ ret' = [done |-> TRUE, value |-> calculateMetaThreatScore(call.team)]
  /\ UNCHANGED <<input, pc, building, frame, error, runVars, call>>

CalculateAnchorSynergyCall ==
  /\ pc = "call" /\ call.op = "calculateAnchorSynergy" /\ ~ret.done
  /\ ret' = [done |-> TRUE,
             value |-> calculateAnchorSynergy(call.team, call.anchorIndices)]
  /\ UNCHANGED <<input, pc, building, frame, error, runVars, call>>

CalculateStrategyScoreCall ==
  /\ pc = "call" /\ call.op = "calculateStrategyScore" /\ ~ret.done
  /\ ret' = [done |-> TRUE, value |-> calculateStrategyScore(call.team, call.mode)]
  /\ UNCHANGED <<input, pc, building, frame, error, runVars, call>>

\* --------------------------------------------------------------------------
\* Specifications
\* --------------------------------------------------------------------------
Idle ==
  /\ building = <<>> /\ frame = NoFrame /\ error = "none"
  /\ population = <<>> /\ generation = 0 /\ diversity = NoDiversity
  /\ mutationRate = DefaultMutationRate /\ converged = FALSE

RunArgs(mode, pokemonPool, anchorPokemon, populationSize) ==
  [mode |-> mode, teamSize |-> TeamSizeOf(mode), pokemonPool |-> pokemonPool,
   anchorPokemon |-> anchorPokemon, populationSize |-> populationSize]

\* runs of the generation loop
RunInputs ==
  {RunArgs("GBL", <<kA, kAShadow, kB, kC, kD>>, <<kB, kA>>, n) : n \in 1..MaxPopulation}
    \cup {RunArgs("GBL", <<kA, kB, kC>>, <<kC>>, n) : n \in 1..MaxPopulation}
    \cup {RunArgs("GBL", <<kA, kD, kJ>>, <<>>, 1)}

\* calls of initializePopulation alone: free, anchored, fully anchored,
\* saturated and empty pools
ConstructInputs ==
  {RunArgs("GBL", <<kA, kAShadow, kB, kC, kD, kH, kCForm>>, <<>>, 1),
   RunArgs("GBL", <<kA, kB, kC>>, <<>>, 2),
   RunArgs("GBL", <<kH, kCForm, kA>>, <<>>, 1),
   RunArgs("GBL", <<kA, kD, kB, kE, kC, kF>>, <<kAShadow>>, 1),
   RunArgs("GBL", <<kD>>, <<kA, kB, kC>>, 2),
   RunArgs("GBL", <<kA, kAShadow>>, <<>>, 1),
   RunArgs("GBL", <<kA, kB>>, <<kA, kB>>, 2),
   RunArgs("GBL", <<>>, <<>>, 1),
   RunArgs("GBL", <<>>, <<kA>>, 1),
   RunArgs("GBL", <<kI>>, <<kA, kD>>, 1),
   RunArgs("GBL", <<kB, kC>>, <<kA, kAShadow>>, 2),
   RunArgs("GBL", <<kI, kH>>, <<kA, kD>>, 1),
   RunArgs("PlayPokemon", <<kA, kAShadow, kB, kC, kD, kE, kF, kG>>,
           <<kA, kB, kC, kD>>, 1),
   RunArgs("PlayPokemon", <<kA, kB, kC, kD, kE, kH>>, <<kG, kA, kB>>, 1)}

Init ==
  /\ input \in RunInputs
  /\ pc = "begin"
  /\ Idle
  /\ call = NoCall /\ ret = NoRet

InitConstruct ==
  /\ input \in ConstructInputs
  /\ pc = "begin"
  /\ Idle
  /\ call = NoCall /\ ret = NoRet

InitOps ==
  /\ input = NoInput
  /\ pc = "call"
  /\ Idle
  /\ \E op \in Ops : call \in CallsOf(op)
  /\ ret = NoRet

Next ==
  \/ BeginChromosome \/ SampleDraw \/ EndSampling \/ FallbackDraw
  \/ EvaluatePopulation \/ CalculateDiversity \/ GetAdaptiveMutationRate
  \/ HasConverged \/ CreateNextGeneration

NextConstruct == BeginChromosome \/ SampleDraw \/ EndSampling \/ FallbackDraw

NextOps ==
  \/ Crossover \/ Mutate \/ SelectElites \/ NextGeneration
  \/ HasConvergedCall \/ GetAdaptiveMutationRateCall \/ IsValidChromosomeCall
  \/ CalculateFitnessCall \/ CalculateMetaThreatScoreCall
  \/ CalculateAnchorSynergyCall \/ CalculateStrategyScoreCall

Spec == Init /\ [][Next]_vars
SpecConstruct == InitConstruct /\ [][NextConstruct]_vars
SpecOps == InitOps /\ [][NextOps]_vars

\* The run with the steps of the construction taken: createRandomChromosome
\* and initializePopulation are sequential code, so an iteration of their
\* loops that can execute does execute.
FairSpec == Init /\ [][Next]_vars /\ WF_vars(NextConstruct)

\* --------------------------------------------------------------------------
\* Properties
\* --------------------------------------------------------------------------
DistinctBaseSpecies(team) ==
  \A i, j \in 1..Len(team) :
    i # j => getBaseSpecies(team[i]) # getBaseSpecies(team[j])

ValidFor(chromosome, mode) ==
  /\ Len(chromosome.team) = (IF mode = "GBL" THEN 3 ELSE 6)
  /\ DistinctBaseSpecies(chromosome.team)

Returned(op) == pc = "call" /\ call.op = op /\ ret.done

InLoop == pc \in {"evaluate", "evolve"}

\* C1: the child crossover returns for two parents valid for the mode is
\* valid for the mode (team of the mode's length, pairwise-distinct base
\* species), for every anchor set of parent1 and every cut point.
C1_CrossoverPreservesValidity ==
  (/\ Returned("crossover")
   /\ ValidFor(call.parent1, call.mode)
   /\ ValidFor(call.parent2, call.mode))
    => ValidFor(ret.value, call.mode)

\* a child that takes entries of both parents
C1_Witness ==
  /\ Returned("crossover")
  /\ ValidFor(call.parent1, call.mode) /\ ValidFor(call.parent2, call.mode)
  /\ ret.value.team # call.parent1.team
  /\ ret.value.team # call.parent2.team

\* C2: the chromosome mutate returns for a chromosome valid for the mode is
\* valid for the mode, for every pool, every rate in [0, 1] and every random
\* outcome.
C2_MutatePreservesValidity ==
  (Returned("mutate") /\ ValidFor(call.chromosome, call.mode))
    => ValidFor(ret.value, call.mode)

\* a slot was replaced
C2_Witness ==
  /\ Returned("mutate")
  /\ ValidFor(call.chromosome, call.mode)
  /\ ret.value.team # call.chromosome.team

SameAnchors(result, source) ==
  /\ Range(result.anchors) = Range(source.anchors)
  /\ \A i \in Range(source.anchors) :
       i + 1 \in DOMAIN source.team =>
         (i + 1 \in DOMAIN result.team /\ result.team[i + 1] = source.team[i + 1])

\* C3: the result of crossover (of mutate) has the anchor index set of
\* parent1 (of the chromosome) and the same entry at every anchor index,
\* whatever parent2 or the pool contains.
C3_AnchorsNeverAltered ==
  /\ Returned("crossover") => SameAnchors(ret.value, call.parent1)
  /\ Returned("mutate") => SameAnchors(ret.value, call.chromosome)

\* a crossover that changed the team although parent2 differs from parent1
\* at an anchor, or a mutation that changed an anchored team
C3_Witness ==
  \/ /\ Returned("crossover")
     /\ ret.value.team # call.parent1.team
     /\ \E i \in Range(call.parent1.anchors) :
          call.parent2.team[i + 1] # call.parent1.team[i + 1]
  \/ /\ Returned("mutate")
     /\ call.chromosome.anchors # <<>>
     /\ ret.value.team # call.chromosome.team
     /\ \E i \in Range(call.chromosome.anchors) :
          \E k \in 1..Len(call.pokemonPool) :
            call.pokemonPool[k] # call.chromosome.team[i + 1]

\* C4: in a run seeded with anchor keys a0..ak-1, every chromosome of every
\* generation has team[i] = ai for each i < k, after any of the loop's
\* operations.
C4_AnchorsStayAtInputIndices ==
  InLoop =>
    \A c \in 1..Len(population) :
      \A i \in 1..Len(input.anchorPokemon) :
        population[c].team[i] = input.anchorPokemon[i]

SameContent(a, b) ==
  a.team = b.team /\ a.anchors = b.anchors /\ a.fitness = b.fitness

EliteCountOf(options, n) ==
  IF "eliteCount" \in DOMAIN options THEN options.eliteCount ELSE (n + 9) \div 10

\* C5: for 0 <= e <= |population| the first e chromosomes createNextGeneration
\* returns are copies (team, anchors, fitness) of e distinct chromosomes of
\* the input, in descending fitness order, and no chromosome left out has a
\* fitness strictly greater than an elite's; e defaults to
\* ceil(0.1 * |population|).
C5_Elitism ==
  Returned("createNextGeneration") =>
    LET n == Len(call.population)
        e == EliteCountOf(call.options, n)
    IN  (0 <= e /\ e <= n) =>
          /\ Len(ret.value) >= e
          /\ \A i \in 1..(e - 1) : ret.value[i].fitness >= ret.value[i + 1].fitness
          /\ \E f \in [1..e -> 1..n] :
               /\ \A i, j \in 1..e : i # j => f[i] # f[j]
               /\ \A i \in 1..e : SameContent(ret.value[i], call.population[f[i]])
               /\ \A j \in (1..n) \ {f[i] : i \in 1..e} :
                    \A i \in 1..e :
                      call.population[j].fitness <= call.population[f[i]].fitness

\* one elite taken from an input whose best chromosome is not the first
C5_Witness ==
  /\ Returned("createNextGeneration")
  /\ Len(call.population) >= 2
  /\ EliteCountOf(call.options, Len(call.population)) = 1
  /\ call.population[1].fitness < call.population[2].fitness

\* C6: the population of a run has populationSize chromosomes after
\* initializePopulation and after every generation, whatever eliteCount in
\* 0..|population| and whatever rates createNextGeneration is given.
C6_PopulationSizeFixed ==
  InLoop => Len(population) = input.populationSize

\* a population of two or more after a generation was derived
C6_Witness ==
  /\ InLoop /\ generation >= 1
  /\ input.populationSize >= 2
  /\ Len(population) = input.populationSize

\* C7: a chromosome of the population is changed in place only in its
\* fitness and only by evaluatePopulation: every operation that does not
\* replace the population leaves the team sequence (contents and order) and
\* the anchors of every chromosome, and the population order, unchanged.
C7_OnlyFitnessChangesInPlace ==
  [][(InLoop /\ pc' \in {"evaluate", "evolve"} /\ generation' = generation) =>
       /\ Len(population') = Len(population)
       /\ \A i \in 1..Len(population) :
            /\ population'[i].team = population[i].team
            /\ population'[i].anchors = population[i].anchors
            /\ (pc' = pc => population'[i].fitness = population[i].fitness)]_vars

InputObjects ==
  IF call.op = "crossover" THEN {call.parent1.oid, call.parent2.oid}
  ELSE IF call.op = "mutate" THEN {call.chromosome.oid}
  ELSE {call.population[i].oid : i \in 1..Len(call.population)}

\* C8: on every path crossover, mutate and selectElites return objects
\* distinct from every chromosome they were given (an object owns its team
\* array, so a distinct object means an unshared team).
C8_OperatorsReturnNewInstances ==
  /\ (Returned("crossover") \/ Returned("mutate")) =>
       ret.value.oid \notin InputObjects
  /\ Returned("selectElites") =>
       \A i \in 1..Len(ret.value) : ret.value[i].oid \notin InputObjects

Constructed == Range(building) \cup Range(population)

\* C9: for anchor keys of length k <= teamSize with pairwise-distinct base
\* species, every chromosome createRandomChromosome returns has teamSize
\* non-empty entries, team[i] = anchorKeys[i], anchors = [0..k-1], every other
\* entry a member of the pool, and pairwise-distinct base species.
C9_RandomChromosomeWellFormed ==
  (/\ pc # "call"
   /\ Len(input.anchorPokemon) <= input.teamSize
   /\ DistinctBaseSpecies(input.anchorPokemon))
    => \A c \in Constructed :
         LET k == Len(input.anchorPokemon)
         IN  /\ Len(c.team) = input.teamSize
             /\ \A i \in 1..input.teamSize : c.team[i] # <<>>
             /\ \A i \in 1..k : c.team[i] = input.anchorPokemon[i]
             /\ c.anchors = [i \in 1..k |-> i - 1]
             /\ \A i \in (k + 1)..input.teamSize :
                  c.team[i] \in Range(input.pokemonPool)
             /\ DistinctBaseSpecies(c.team)

\* an anchored team of six with an entry only the fallback can choose
C9_Witness ==
  /\ pc = "evaluate"
  /\ input.anchorPokemon # <<>>
  /\ \E c \in Range(population) : \E i \in 1..Len(c.team) : c.team[i] = kH

\* C10: when every pool member's base species is already on the team,
\* createRandomChromosome raises the construction error once the fallback has
\* made more than 1000 draws; no chromosome is returned for a saturated slot
\* and the error leaves initializePopulation without a population.
Saturated ==
  /\ frame.slots # <<>>
  /\ \A k \in 1..Len(input.pokemonPool) :
       getBaseSpecies(input.pokemonPool[k]) \in frame.usedBaseSpecies

C10_ConstructionFailure ==
  /\ (pc = "thrown" /\ Saturated) =>
       /\ error = "ConstructionError"
       /\ frame.fallbackAttempts > 1000
       /\ building = <<>> /\ population = <<>>
  /\ (pc \in {"sample", "fallback"} /\ Saturated) =>
       frame.selectedSpecies = <<>>

\* no member of the pool has a base species that is not on the team
NoCandidate(chromosome, pokemonPool) ==
  \A k \in 1..Len(pokemonPool) :
    \E i \in 1..Len(chromosome.team) :
      getBaseSpecies(pokemonPool[k]) = getBaseSpecies(chromosome.team[i])

AllSlotsAnchored(chromosome, mode) ==
  \A i \in 0..(TeamSizeOf(mode) - 1) : i \in Range(chromosome.anchors)

\* two written entries of the team with one base species
DuplicateBase(team) ==
  \E i, j \in 1..Len(team) :
    /\ i # j /\ team[i] # HoleEntry /\ team[j] # HoleEntry
    /\ getBaseSpecies(team[i]) = getBaseSpecies(team[j])

\* C11: mutate raises no error for any chromosome (valid or not), pool and
\* rate; the anchors it returns are the input's; with no candidate in the
\* pool or with every slot anchored the team it returns is the input's; and a
\* team it returns changed has no duplicate base species (a replacement that
\* would leave one gives back the input's team).
C11_MutateFailSoft ==
  Returned("mutate") =>
    /\ ret.value # TypeError
    /\ ret.value.anchors = call.chromosome.anchors
    /\ (\/ NoCandidate(call.chromosome, call.pokemonPool)
        \/ AllSlotsAnchored(call.chromosome, call.mode))
         => ret.value.team = call.chromosome.team
    /\ ret.value.team # call.chromosome.team => ~DuplicateBase(ret.value.team)

\* a mutation attempted on a chromosome that is not valid, with a pool that
\* is not empty and has no candidate
C11_Witness ==
  /\ Returned("mutate")
  /\ ~ValidFor(call.chromosome, call.mode)
  /\ call.mutationRate = 1000
  /\ Len(call.pokemonPool) > 0
  /\ NoCandidate(call.chromosome, call.pokemonPool)
  /\ ~AllSlotsAnchored(call.chromosome, call.mode)
  /\ ret.value.oid # call.chromosome.oid

\* the k-th largest of the fitness values of a population, with multiplicity
KthBestFitness(pop, k) ==
  CHOOSE v \in {pop[i].fitness : i \in 1..Len(pop)} :
    /\ Cardinality({i \in 1..Len(pop) : pop[i].fitness > v}) < k
    /\ Cardinality({i \in 1..Len(pop) : pop[i].fitness >= v}) >= k

\* ceil(0.3 * n): the least k with 10 * k >= 3 * n
TopThirtyPercent(n) == CHOOSE k \in 0..n : 10 * k >= 3 * n /\ 10 * (k - 1) < 3 * n

\* C12: hasConverged(population, eps) is true exactly when the population is
\* empty or the best fitness minus the ceil(0.3 * n)-th best fitness is
\* strictly less than eps; a range equal to eps gives false.
C12_HasConvergedExact ==
  Returned("hasConverged") =>
    (ret.value <=>
       \/ Len(call.population) = 0
       \/ KthBestFitness(call.population, 1)
            - KthBestFitness(call.population, TopThirtyPercent(Len(call.population)))
            < call.threshold)

\* a slice of two chromosomes whose range is exactly eps: not converged
C12_Witness ==
  /\ Returned("hasConverged")
  /\ Len(call.population) >= 4
  /\ call.threshold = ConvergenceThreshold
  /\ KthBestFitness(call.population, 1) - KthBestFitness(call.population, 2)
       = call.threshold
  /\ ret.value = FALSE

KeyUpToUnderscore(key) ==
  SubSeq(key, 1, CHOOSE m \in 0..Len(key) :
                   /\ \A j \in 1..m : key[j] # 95
                   /\ (m < Len(key) => key[m + 1] = 95))

C15_EmptyTeamFitnessZero ==
  (Returned("calculateFitness") /\ call.chromosome.team = <<>>)
    => ret.value = 0

\* C16: calculateFitness of a chromosome with a non-empty team is never
\* negative, in either mode, with or without anchors.
C16_FitnessNonNegative ==
  (Returned("calculateFitness") /\ Len(call.chromosome.team) > 0)
    => ret.value >= 0

\* a team with anchors whose shadow preference, the one component that can be
\* negative, is negative has been scored
C16_Witness ==
  /\ Returned("calculateFitness")
  /\ Len(call.chromosome.team) > 0
  /\ Len(call.chromosome.anchors) > 0
  /\ calculateShadowPreference(call.chromosome.team)[1] < 0
  /\ ret.value >= 0

\* the threats of the top 50 against which some member of team that has a
\* catalog record has a charged move of effectiveness >= 1.6
CoveredThreats(team) ==
  LET metaThreats == Slice0(getMetaThreats, 50)
      teamPokemon == TeamPokemon(team)
  IN  {n \in 1..Len(metaThreats) :
         \E i \in 1..Len(teamPokemon) :
           HasSuperEffectiveMove(teamPokemon[i],
             SelectSeq(<<metaThreats[n].type1, metaThreats[n].type2>>,
                       LAMBDA t : t # "none"))}

\* C17: calculateMetaThreatScore counts each of the top 50 threats at most
\* once: for a team of 3 or 6 members it returns covered / 50, covered being
\* the number of threats that some member covers.  (Stated for the teams the
\* algorithm scores: members of pairwise distinct base species.)
C17_EachThreatCountedOnce ==
  (/\ Returned("calculateMetaThreatScore")
   /\ Len(call.team) \in {3, 6}
   /\ validateTeamUniqueness(call.team))
    => ret.value = (Cardinality(CoveredThreats(call.team)) * FitnessScale) \div 50

\* C18: the anchor synergy is an average of combinations 0.6 * defensive +
\* 0.4 * offensive of two fractions, so it lies in [0, 1] for every team and
\* every list of anchor indices.  (Stated for members of pairwise distinct
\* base species.)
C18_AnchorSynergyIsFraction ==
  (Returned("calculateAnchorSynergy") /\ validateTeamUniqueness(call.team))
    => (ret.value >= 0 /\ ret.value <= FitnessScale)

\* C19 (as stated): for two parents valid for the mode, the slot-copy rule
\* of crossover never yields a duplicate base species: the final uniqueness
\* test never fails and the second clone of parent1 is never the result.
\* (Checked for parents without anchors.)
C19_FallbackNeverTaken ==
  (/\ Returned("crossover")
   /\ ValidFor(call.parent1, call.mode)
   /\ ValidFor(call.parent2, call.mode)
   /\ Len(call.parent1.anchors) = 0)
    => ret.value.oid = Max(call.parent1.oid, call.parent2.oid) + 1

\* the result of crossover is the second clone of parent1, the one made after
\* the final uniqueness test failed
FallbackTaken ==
  ret.value.oid = Max(call.parent1.oid, call.parent2.oid) + 2

\* C19 (amended): for two parents valid for the mode, crossover returns
\* either the slot-copied child of some cut point, whose base species are
\* pairwise distinct, or, the slot copy having left a duplicate base species,
\* a new clone of parent1 with parent1's team, anchors and fitness.
C19_FallbackOnDuplicate ==
  (/\ Returned("crossover")
   /\ ValidFor(call.parent1, call.mode)
   /\ ValidFor(call.parent2, call.mode))
    => LET alloc == Max(call.parent1.oid, call.parent2.oid) + 1
           copied ==
             {crossoverUnchecked(call.parent1, call.parent2, call.mode, rnd, alloc) :
                rnd \in CrossoverDraws(call.parent1, call.mode)}
       IN  \/ /\ ret.value.oid = alloc
              /\ ret.value \in copied
              /\ DistinctBaseSpecies(ret.value.team)
           \/ /\ FallbackTaken
              /\ \E c \in copied : ~DistinctBaseSpecies(c.team)
              /\ ret.value = [call.parent1 EXCEPT !.oid = alloc + 1]

\* two valid parents for which the slot copy left a duplicate: the clone of
\* parent1 has been returned
C19_Witness ==
  /\ Returned("crossover")
  /\ ValidFor(call.parent1, call.mode)
  /\ ValidFor(call.parent2, call.mode)
  /\ FallbackTaken
  /\ ret.value.team = call.parent1.team

\* child is slot-wise a mix of the parents around the cut point: parent1's
\* entry at every anchor index and every index before the cut, parent1's or
\* parent2's entry of the same index elsewhere
SlotWise(child, parent1, parent2, cut) ==
  /\ Len(child.team) = Len(parent1.team)
  /\ \A i \in 0..(Len(child.team) - 1) :
       /\ \/ child.team[i + 1] = parent1.team[i + 1]
          \/ child.team[i + 1] = parent2.team[i + 1]
       /\ (isAnchorSlot(i, parent1) \/ i < cut)
            => child.team[i + 1] = parent1.team[i + 1]

Eligible(candidateSpecies) ==
  /\ getBaseSpecies(candidateSpecies) \notin frame.usedBaseSpecies
  /\ getPokemonBySpeciesId(candidateSpecies) # Undefined

\* C21: the fallback over the full pool is entered for a slot only when every
\* candidate sampled for it was a duplicate base species or had no record; in
\* particular never when every member of a non-empty pool is eligible.
C21_FallbackOnlyWithoutEligible ==
  (pc = "fallback" /\ Len(input.pokemonPool) > 0)
    => \E k \in 1..Len(input.pokemonPool) : ~Eligible(input.pokemonPool[k])

\* C22: a chromosome that crossover produces has fitness 0 until it is
\* evaluated, whatever the fitness of its parents.
C22_ChildFitnessZero ==
  Returned("crossover") => ret.value.fitness = 0

\* the orders of six members
Orders == {p \in [1..6 -> 1..6] : \A i, j \in 1..6 : i # j => p[i] # p[j]}

\* the score of the lineup lead, switch, closer as the rules state it, in
\* hundredths
LineupScore(lead, switch, closer) ==
  LET Types(key) == Range(getPokemonBySpeciesId(key).types)
  IN  IF \E key \in {lead, switch, closer} : getPokemonBySpeciesId(key) = Undefined
      THEN 0
      ELSE Min(100,
               (IF Types(lead) \cap Types(closer) # {} THEN 30 ELSE 0)
               + (IF Types(closer) \cap Types(switch) # {} THEN 30 ELSE 0)
               + (IF Cardinality(Types(lead) \cup Types(switch) \cup Types(closer)) >= 5
                  THEN 40 ELSE 0))

\* C23: the strategy score of a team of three in GBL is the score of the
\* lineup in stored order; of a team of six it is the maximum of the lineup
\* score over the ordered triples of distinct members, the same for every
\* order of the team.
C23_StrategyScore ==
  Returned("calculateStrategyScore")
    => LET team == call.team
       IN  /\ (call.mode = "GBL" /\ Len(team) = 3)
                => ret.value = LineupScore(team[1], team[2], team[3])
           /\ (call.mode = "PlayPokemon" /\ Len(team) = 6)
                => /\ \A i, j, k \in 1..6 :
                        (i # j /\ j # k /\ i # k)
                          => ret.value >= LineupScore(team[i], team[j], team[k])
                   /\ \/ ret.value = 0
                      \/ \E i, j, k \in 1..6 :
                           /\ i # j /\ j # k /\ i # k
                           /\ ret.value = LineupScore(team[i], team[j], team[k])
                   /\ \A p \in Orders :
                        calculateStrategyScore([n \in 1..6 |-> team[p[n]]], call.mode)
                          = ret.value

\* a team of six scored above its first three members in stored order, by a
\* lineup that is not in team order
C23_Witness ==
  /\ Returned("calculateStrategyScore")
  /\ call.mode = "PlayPokemon" /\ Len(call.team) = 6
  /\ ret.value > LineupScore(call.team[1], call.team[2], call.team[3])
  /\ \A i, j, k \in 1..6 :
       (i < j /\ j < k)
         => ret.value > LineupScore(call.team[i], call.team[j], call.team[k])

\* C24: isValidChromosome reports a chromosome invalid when its team holds a
\* key that has no record in the catalog.
C24_UnknownKeyInvalid ==
  (/\ Returned("isValidChromosome")
   /\ \E i \in 1..Len(call.chromosome.team) :
        getPokemonBySpeciesId(call.chromosome.team[i]) = Undefined)
    => ret.value = FALSE

\* C25: when mutate changes the team of a chromosome valid for the mode, the
\* result differs from the input at exactly one index, a non-anchor index
\* below the team size; the new entry is a pool member whose base species is
\* the base species of no member of the input team; the anchors and the
\* length are those of the input.
C25_MutateChangesOneSlot ==
  (/\ Returned("mutate")
   /\ ValidFor(call.chromosome, call.mode)
   /\ ret.value.team # call.chromosome.team)
    => LET old == call.chromosome.team
           new == ret.value.team
       IN  /\ Len(new) = Len(old)
           /\ ret.value.anchors = call.chromosome.anchors
           /\ \E i \in 0..(TeamSizeOf(call.mode) - 1) :
                /\ ~isAnchorSlot(i, call.chromosome)
                /\ new[i + 1] # old[i + 1]
                /\ \A j \in 1..Len(old) : j # i + 1 => new[j] = old[j]
                /\ new[i + 1] \in Range(call.pokemonPool)
                /\ \A j \in 1..Len(old) :
                     getBaseSpecies(new[i + 1]) # getBaseSpecies(old[j])

\* an anchored chromosome changed by a draw from a pool that also holds
\* another form of the replaced member
C25_Witness ==
  /\ Returned("mutate")
  /\ ValidFor(call.chromosome, call.mode)
  /\ Len(call.chromosome.anchors) > 0
  /\ ret.value.team # call.chromosome.team
  /\ \E i \in 1..Len(ret.value.team), k \in 1..Len(call.pokemonPool) :
       /\ ret.value.team[i] # call.chromosome.team[i]
       /\ call.pokemonPool[k] # call.chromosome.team[i]
       /\ getBaseSpecies(call.pokemonPool[k]) = getBaseSpecies(call.chromosome.team[i])

\* C26: every chromosome createRandomChromosome returns, and so every member
\* of the population initializePopulation builds, has pairwise distinct base
\* species, whatever the anchor list.
C26_ConstructedTeamsUnique ==
  pc # "call" => \A c \in Constructed : DistinctBaseSpecies(c.team)

\* C27: every chromosome of the array createNextGeneration returns is an
\* object distinct from every chromosome of the input population and from
\* every other chromosome of the array (an object owns its team and anchors
\* arrays).
C27_NoAliasingBetweenGenerations ==
  Returned("createNextGeneration")
    => /\ \A i \in 1..Len(ret.value) : ret.value[i].oid \notin InputObjects
       /\ \A i, j \in 1..Len(ret.value) :
            i # j => ret.value[i].oid # ret.value[j].oid

\* a generation whose elite and whose child both have the team, anchors and
\* fitness of one and the same chromosome of the input
C27_Witness ==
  /\ Returned("createNextGeneration")
  /\ "eliteCount" \in DOMAIN call.options /\ call.options.eliteCount = 1
  /\ Len(ret.value) = 2
  /\ \E p \in 1..Len(call.population) :
       /\ SameContent(ret.value[1], call.population[p])
       /\ SameContent(ret.value[2], call.population[p])

\* C28: for every base rate in [0, 1] the rate getAdaptiveMutationRate
\* returns is at least the base rate when diversity < 0.3 and at most the
\* base rate when diversity > 0.7.
C28_AdaptiveRateDirection ==
  Returned("getAdaptiveMutationRate")
    => LET base == OptionOr(call, "baseMutationRate", DefaultMutationRate)
           d == call.diversity
       IN  /\ (d[2] # 0 /\ 10 * d[1] < 3 * d[2]) => ret.value >= base
           /\ (d[2] # 0 /\ 10 * d[1] > 7 * d[2]) => ret.value <= base

MaxFitness(pop) == MaxOfSet({pop[i].fitness : i \in 1..Len(pop)}, 0)

\* next holds a chromosome with the team, anchors and fitness of a chromosome
\* of pop that has the maximum fitness: what eliteCount >= 1 provides
CarriesBest(pop, next) ==
  \E i \in 1..Len(pop), j \in 1..Len(next) :
    /\ pop[i].fitness = MaxFitness(pop)
    /\ SameContent(next[j], pop[i])

\* C29: when createNextGeneration carries the best chromosome of an evaluated
\* generation over, the maximum fitness of the next generation, once
\* evaluated, is at least the maximum fitness of the generation it came from.
C29_BestFitnessNeverDecreases ==
  [][(/\ pc = "evolve" /\ pc' = "evaluate"
      /\ CarriesBest(population, population'))
       => MaxFitness(evaluatePopulation(population', input.mode))
            >= MaxFitness(population)]_vars

\* C30: for a non-empty pool createRandomChromosome makes at most
\* min(20, |pool|) sampling draws and at most 1001 fallback draws for a slot,
\* and then returns or raises the construction error, so initializePopulation
\* ends; createNextGeneration returns an array of the size of its population
\* (elites plus children), for every random outcome.
C30_Terminates ==
  /\ [](pc \in {"sample", "fallback", "thrown"} =>
          /\ frame.i <= Min(20, Len(input.pokemonPool))
          /\ frame.fallbackAttempts <= 1001)
  /\ [](pc = "thrown" =>
          (error = "ConstructionError" /\ frame.fallbackAttempts = 1001))
  /\ (pc \in {"begin", "sample", "fallback"}) ~> (pc \in {"evaluate", "thrown"})
  /\ [][(pc = "evolve" /\ pc' = "evaluate") =>
          Len(population') = Len(population)]_vars

\* the 1001st fallback draw of a slot has been made and the construction
\* error raised
C30_Witness ==
  /\ pc = "thrown"
  /\ Len(input.pokemonPool) > 0
  /\ frame.i = Min(20, Len(input.pokemonPool))
  /\ frame.fallbackAttempts = 1001

====
